---- MODULE Spec2Model ----
\* State-machine model of the static recompiler pipeline of rrecomp.cpp:
\* r_disassemble, inspect_data_function_pointers, r_pass1 .. r_pass6, r_dump_c.
\*
\* uint32_t values are kept as two's-complement integers: a negative model
\* integer n stands for the unsigned value 2^32 + n, and the unsigned
\* comparisons of the source are the operators ULT / ULE below.
EXTENDS Integers, Sequences, FiniteSets, TLC

\* ------------------------------------------------------------------------
\* Bounds of the model
\* ------------------------------------------------------------------------
MaxPad == 1

\* ------------------------------------------------------------------------
\* Registers (RabbitizerRegister_GprO32 numbering, see r_r)
\* ------------------------------------------------------------------------
zero == 0
at == 1
v0 == 2
v1 == 3
a0 == 4
a1 == 5
a2 == 6
a3 == 7
t0 == 8
t9 == 25
gp == 28
sp == 29
ra == 31
hi == 32
lo == 33

MAX_LOOKBACK == 128
TwoTo30 == 2^30

\* ------------------------------------------------------------------------
\* Unsigned 32-bit helpers
\* ------------------------------------------------------------------------
ULT(a, b) == IF (a < 0) = (b < 0) THEN a < b ELSE b < 0
ULE(a, b) == a = b \/ ULT(a, b)

\* unsigned x / 4
UDiv4(x) == IF x >= 0 THEN x \div 4 ELSE TwoTo30 + (x \div 4)

Max(a, b) == IF a >= b THEN a ELSE b

\* ------------------------------------------------------------------------
\* Section layout handed over by the ELF parser
\* ------------------------------------------------------------------------
text_vaddr == 4194304
rodata_vaddr == 4259840
gp_value == 65536

\* ------------------------------------------------------------------------
\* Decoded instructions.  A word is opcode | rs | rt | low 16 bits; rd, and
\* the 26-bit jump index, are read out of the same bits as the macros
\* RAB_INSTR_GET_* do, whatever the instruction type.
\* ------------------------------------------------------------------------
RAB_INSTR_GET_rs(ins) == ins.rs
RAB_INSTR_GET_rt(ins) == ins.rt
RAB_INSTR_GET_rd(ins) == (ins.imm \div 2048) % 32
RAB_INSTR_GET_immediate(ins) == ins.imm

\* instr_index << 2, upper four bits taken from the instruction's vram
\* (zero for the text addresses used here)
getInstrIndexAsVram(ins) == ((ins.rs % 32) * 2097152 + ins.rt * 65536 + ins.imm) * 4

UnsignedImmIds == {"andi", "ori", "xori", "lui"}
isUnsigned(desc) == desc \in UnsignedImmIds

From2Complement16(x) == IF x >= 32768 THEN x - 65536 ELSE x

getProcessedImmediate(ins) ==
    IF isUnsigned(ins.desc) THEN ins.imm ELSE From2Complement16(ins.imm)

\* byte offset of a branch: sign-extended immediate * 4 + 4
getBranchOffset(ins) == From2Complement16(ins.imm) * 4 + 4

ModifiesRtIds == {"lui", "addiu", "addi", "ori", "andi", "xori", "slti", "sltiu",
                  "lw", "lb", "lbu", "lh", "lhu", "lwl", "lwr", "ld", "mfc1", "cfc1"}
ModifiesRdIds == {"addu", "add", "sub", "subu", "and", "or", "nor", "xor", "sll",
                  "srl", "sra", "slt", "sltu", "mfhi", "mflo", "move", "negu",
                  "not", "jalr", "sllv", "srlv", "srav"}
JumpIds == {"j", "jal", "jr", "jalr"}
ITypeIds == {"lui", "addiu", "addi", "ori", "andi", "xori", "slti", "sltiu",
             "lw", "lb", "lbu", "lh", "lhu", "lwl", "lwr", "ld", "sw", "sb", "sh",
             "beq", "bne", "beqz", "bnez", "b", "beql", "bnel", "bgezal", "bgez",
             "lwc1", "swc1", "ldc1", "sdc1"}

modifiesRt(desc) == desc \in ModifiesRtIds
modifiesRd(desc) == desc \in ModifiesRdIds
isJump(desc) == desc \in JumpIds
isIType(desc) == desc \in ITypeIds

\* operands that name rs (directly or as the base of a memory operand)
HasRsIds == {"addiu", "addi", "ori", "andi", "xori", "slti", "sltiu",
             "lw", "lb", "lbu", "lh", "lhu", "lwl", "lwr", "ld", "sw", "sb", "sh",
             "lwc1", "swc1", "ldc1", "sdc1",
             "addu", "add", "sub", "subu", "and", "or", "nor", "xor", "slt", "sltu",
             "sllv", "srlv", "srav", "move", "negu", "not",
             "mult", "multu", "div", "divu",
             "beq", "bne", "beqz", "bnez", "beql", "bnel", "bgezal", "bgez",
             "jr", "jalr"}
HasRtIds == {"lui", "addiu", "addi", "ori", "andi", "xori", "slti", "sltiu",
             "lw", "lb", "lbu", "lh", "lhu", "lwl", "lwr", "ld", "sw", "sb", "sh",
             "addu", "add", "sub", "subu", "and", "or", "nor", "xor", "slt", "sltu",
             "sllv", "srlv", "srav", "sll", "srl", "sra",
             "mult", "multu", "div", "divu",
             "beq", "bne", "beql", "bnel", "mtc1", "mfc1", "cfc1", "ctc1"}
hasOperandAlias_rs(ins) == ins.desc \in HasRsIds
hasOperandAlias_rt(ins) == ins.desc \in HasRtIds

\* instruction constructors (what RabbitizerInstruction_init +
\* processUniqueId give for a word of that shape)
Ins(id, rs, rt, imm) == [id |-> id, desc |-> id, rs |-> rs, rt |-> rt, imm |-> imm]
IType(id, rt, rs, imm) == Ins(id, rs, rt, imm % 65536)
RType(id, rd, rs, rt) == Ins(id, rs, rt, rd * 2048)
Shift(id, rd, rt, sa) == Ins(id, 0, rt, rd * 2048 + sa * 64)
JType(id, addr) ==
    LET ix == addr \div 4
    IN Ins(id, (ix \div 2097152) % 32, (ix \div 65536) % 32, ix % 65536)
Branch(id, rs, rt, off) == Ins(id, rs, rt, off % 65536)
NOP == Ins("nop", 0, 0, 0)
JR(r) == Ins("jr", r, 0, 8)
JALR(r) == Ins("jalr", r, 0, ra * 2048 + 9)

\* ------------------------------------------------------------------------
\* RInsn and Function records
\* ------------------------------------------------------------------------
\* RInsn() value-initialised, then linked_insn = -1 (r_disassemble loop)
NewRInsn(ins) ==
    [instruction |-> ins,
     is_global_got_memop |-> FALSE, no_following_successor |-> FALSE,
     patched |-> FALSE, patched_addr |-> 0,
     linked_insn |-> -1, linked_value |-> 0,
     jtbl_addr |-> 0, num_cases |-> 0, index_reg |-> 0,
     successors |-> <<>>, predecessors |-> <<>>,
     b_liveout |-> {}, b_livein |-> {}, f_livein |-> {}, f_liveout |-> {}]

\* the dummy NOP appended after the text: linked_insn stays 0
SentinelRInsn ==
    [NewRInsn(NOP) EXCEPT !.linked_insn = 0, !.no_following_successor = TRUE]

r_disassemble(text) ==
    [i \in 0..Len(text) |->
        IF i < Len(text) THEN NewRInsn(text[i + 1]) ELSE SentinelRInsn]

NewFunction ==
    [returns |-> <<>>, end_addr |-> 0, nargs |-> 0, nret |-> 0,
     v0_in |-> FALSE, referenced_by_function_pointer |-> FALSE]

\* std::map operator[]: insert a default Function when the key is absent
MapTouch(F, addr) ==
    IF addr \in DOMAIN F THEN F
    ELSE [a \in (DOMAIN F) \cup {addr} |-> IF a = addr THEN NewFunction ELSE F[a]]

text_section_len(e) == 4 * Len(e.text)

InText(e, addr) ==
    ULE(text_vaddr, addr) /\ ULT(addr, text_vaddr + text_section_len(e))

add_function(e, F, addr) ==
    IF InText(e, addr) THEN MapTouch(F, addr) ELSE F

\* unsigned order of the keys of a std::map / std::set
MinAddr(S) == CHOOSE a \in S : \A b \in S : ULE(a, b)

RECURSIVE SortedAddrs(_)
SortedAddrs(S) ==
    IF S = {} THEN <<>>
    ELSE LET m == MinAddr(S) IN <<m>> \o SortedAddrs(S \ {m})

\* find_function: greatest key <= addr, or "end" (-1 here: no key is -1)
NoFunction == -1
find_function(F, addr) ==
    LET below == {a \in DOMAIN F : ULE(a, addr)}
    IN IF below = {} THEN NoFunction
       ELSE CHOOSE a \in below : \A b \in below : ULE(b, a)

addr_to_i(addr) == UDiv4(addr - text_vaddr)

i_to_addr(i) == text_vaddr + i * 4

get_dest_reg(ins) ==
    IF modifiesRt(ins.desc) THEN RAB_INSTR_GET_rt(ins)
    ELSE IF modifiesRd(ins.desc) THEN RAB_INSTR_GET_rd(ins)
    ELSE zero

\* ------------------------------------------------------------------------
\* r_pass1: symbol resolution
\* ------------------------------------------------------------------------
\* scan results: r = instruction vector, f = functions, fail = an assert fired
Res(R, F, fail) == [r |-> R, f |-> F, fail |-> fail]

PatchId(rec, id, desc) ==
    [rec EXCEPT !.patched = TRUE, !.instruction.id = id, !.instruction.desc = desc]

LuiUserLoadStoreIds == {"lb", "lbu", "sb", "lh", "lhu", "sh", "lw", "sw",
                        "ldc1", "lwc1", "swc1"}
LuiProducerIds == {"lw", "ld", "addiu", "add", "sub", "subu"}

\* the GOT-local link with the resolved address registered for every user
LinkGotLocalRegistering(e, R, F, offset, search, mem_imm, got_entry) ==
    LET addr == e.got_locals[got_entry + 1] + mem_imm
    IN Res([R EXCEPT ![search] = [PatchId(@, "ori", "ori")
                                     EXCEPT !.patched_addr = addr,
                                            !.linked_insn = offset,
                                            !.linked_value = addr],
                     ![offset] = [@ EXCEPT !.patched = TRUE,
                                           !.linked_insn = search,
                                           !.linked_value = addr]],
           add_function(e, F, addr), FALSE)

\* the GOT-local branch of r_link_with_lui: link search <-> offset, rewrite
\* the LW to ORI and the user to MOVE / zero offset
LinkGotLocal(e, R, F, offset, search, mem_imm, got_entry) ==
    LET addr == e.got_locals[got_entry + 1] + mem_imm
        R1 == [R EXCEPT ![search].linked_insn = offset,
                        ![search].linked_value = addr,
                        ![offset].linked_insn = search,
                        ![offset].linked_value = addr]
        R2 == [R1 EXCEPT ![search] = [PatchId(@, "ori", "ori") EXCEPT !.patched_addr = addr]]
        uid == R2[offset].instruction.id
    IN CASE uid = "addiu" ->
              Res([R2 EXCEPT ![offset] = PatchId(@, "move", R2[search].instruction.id)],
                  IF InText(e, addr) THEN add_function(e, F, addr) ELSE F,
                  FALSE)
         [] uid \in LuiUserLoadStoreIds ->
              Res([R2 EXCEPT ![offset].patched = TRUE, ![offset].patched_addr = 0], F, FALSE)
         [] OTHER -> Res(R2, F, TRUE)

\* the test that ends the HI/LO scan at a previous `jr ra`
LuiScanStopsAtJr(ins, offset, search) ==
    RAB_INSTR_GET_rd(ins) = ra /\ offset - search >= 2

RECURSIVE LuiScan(_, _, _, _, _, _, _, _)
LuiScan(e, R, F, offset, reg, mem_imm, search, end_search) ==
    IF search < end_search THEN Res(R, F, FALSE)
    ELSE
      LET s == R[search].instruction
          next == LuiScan(e, R, F, offset, reg, mem_imm, search - 1, end_search)
      IN CASE s.id = "lui" ->
                IF reg = RAB_INSTR_GET_rt(s) THEN Res(R, F, FALSE) ELSE next
           [] s.id \in LuiProducerIds ->
                IF reg = get_dest_reg(s)
                THEN IF s.id = "lw" /\ RAB_INSTR_GET_rs(s) = gp
                     THEN LET mem_imm0 == getProcessedImmediate(s)
                              got_entry == UDiv4(mem_imm0 + e.gp_value_adj)
                          IN IF got_entry < Len(e.got_locals)
                             THEN LinkGotLocal(e, R, F, offset, search, mem_imm, got_entry)
                             ELSE Res(R, F, FALSE)
                     ELSE Res(R, F, FALSE)
                ELSE next
           [] s.id = "jr" ->
                IF LuiScanStopsAtJr(s, offset, search) THEN Res(R, F, FALSE) ELSE next
           [] OTHER -> next

\* variant that marks the user as patched whatever the scan finds
r_link_with_lui_marking(e, R, F, offset, reg, mem_imm) ==
    Res([R EXCEPT ![offset].patched = TRUE], F, FALSE)

r_link_with_lui(e, R, F, offset, reg, mem_imm) ==
    LuiScan(e, R, F, offset, reg, mem_imm, offset - 1, Max(0, offset - MAX_LOOKBACK))

JalrStopIds == {"ld", "addu", "add", "sub", "subu"}

\* the link and the JALR rewrite of LinkJalrProducer, the producer left alone
LinkJalrProducerKeepsLoad(e, R, F, offset, search) ==
    Res([R EXCEPT ![search].linked_insn = offset,
                  ![offset] = [PatchId(@, "jal", R[search].instruction.id)
                                  EXCEPT !.linked_insn = search,
                                         !.linked_value = R[search].linked_value]],
        add_function(e, F, R[search].linked_value), FALSE)

\* lw / ori producer of $t9: link, rewrite JALR to JAL and the producer to NOP
LinkJalrProducer(e, R, F, offset, search) ==
    LET R1 == [R EXCEPT ![search].linked_insn = offset,
                        ![offset].linked_insn = search,
                        ![offset].linked_value = R[search].linked_value]
        R2 == [R1 EXCEPT ![offset] =
                  [PatchId(@, "jal", R1[search].instruction.id)
                      EXCEPT !.patched_addr = getProcessedImmediate(R1[offset].instruction)]]
        R3 == [R2 EXCEPT ![search] =
                  [PatchId(@, "nop", "nop") EXCEPT !.is_global_got_memop = FALSE]]
    IN Res(R3, add_function(e, F, R3[search].linked_value), FALSE)

\* already linked ADDIU producer of $t9
LinkJalrAddiu(R, F, offset, search) ==
    LET first == R[search].linked_insn
    IN Res([R EXCEPT ![search].linked_insn = offset,
                     ![offset].linked_insn = first,
                     ![offset].linked_value = R[search].linked_value], F, FALSE)

RECURSIVE JalrScan(_, _, _, _, _, _)
JalrScan(e, R, F, offset, search, end_search) ==
    IF search < end_search THEN Res(R, F, FALSE)
    ELSE
      LET s == R[search].instruction
          next == JalrScan(e, R, F, offset, search - 1, end_search)
      IN IF get_dest_reg(s) = t9
         THEN CASE s.id \in {"lw", "ori"} ->
                     IF R[search].is_global_got_memop \/ s.id = "ori"
                     THEN LinkJalrProducer(e, R, F, offset, search)
                     ELSE Res(R, F, FALSE)
                [] s.id = "addiu" ->
                     IF R[search].linked_insn # -1
                     THEN LinkJalrAddiu(R, F, offset, search)
                     ELSE Res(R, F, FALSE)
                [] s.id \in JalrStopIds -> Res(R, F, FALSE)
                [] OTHER -> next
         ELSE IF s.id = "jr" /\ RAB_INSTR_GET_rs(s) = ra
              THEN Res(R, F, FALSE)
              ELSE next

r_link_with_jalr(e, R, F, offset) ==
    JalrScan(e, R, F, offset, offset - 1, Max(0, offset - MAX_LOOKBACK))

\* imm << 16 as a 32-bit pattern
Shl16(imm) == IF imm >= 32768 THEN (imm - 65536) * 65536 ELSE imm * 65536

MtcStopIds == {"lw", "ld", "lh", "lhu", "lb", "lbu", "addiu", "add", "sub", "subu"}

\* floating point LI: link the LUI to the MTC1 at i (linked_float shares the
\* storage of linked_value) and rewrite it to ORI
LinkFloatLui(R, i, s) ==
    LET lui_imm == Shl16(getProcessedImmediate(R[s].instruction))
    IN [R EXCEPT ![s] = [PatchId(@, "ori", "ori")
                            EXCEPT !.linked_insn = i,
                                   !.linked_value = lui_imm,
                                   !.patched_addr = lui_imm]]

RECURSIVE MtcScan(_, _, _, _)
MtcScan(R, i, rt, s) ==
    IF s < 0 THEN R
    ELSE
      LET ins == R[s].instruction
          next == MtcScan(R, i, rt, s - 1)
      IN CASE ins.id = "lui" ->
                IF RAB_INSTR_GET_rt(ins) = rt THEN LinkFloatLui(R, i, s) ELSE R
           [] ins.id \in MtcStopIds ->
                IF rt = RAB_INSTR_GET_rd(ins) THEN R ELSE next
           [] ins.id = "jr" ->
                IF RAB_INSTR_GET_rs(ins) = ra THEN R ELSE next
           [] OTHER -> next

\* --- jump-table recognition (the JR branch of r_pass1) -------------------
\* a read of rinsns[k]: outside the vector it yields whatever the memory
\* next to the vector holds (the instruction g)
RdIns(R, k, g) == IF k \in DOMAIN R THEN R[k].instruction ELSE g

B2N(b) == IF b THEN 1 ELSE 0

rodata_section_len(e) == 4 * Len(e.rodata)

\* read_u32_be(rodata_section + pos) for a word-aligned pos
RodataWord(e, pos) == e.rodata[(pos \div 4) + 1]

JtRes(R, L, fail) == [r |-> R, labels |-> L, fail |-> fail]

\* first j in lo_j..hi_j with an ANDI at lw - j, else -1
RECURSIVE FindAndi(_, _, _, _, _)
FindAndi(R, g, lw, j, hi_j) ==
    IF j > hi_j THEN -1
    ELSE IF RdIns(R, lw - j, g).id = "andi" THEN lw - j
    ELSE FindAndi(R, g, lw, j + 1, hi_j)

\* first j in j..end with `sltiu $at` at base - j, stopping at a JR; else -1
RECURSIVE FindSltiu(_, _, _, _, _)
FindSltiu(R, g, base, j, end) ==
    IF j > end THEN -1
    ELSE LET ins == RdIns(R, base - j, g)
         IN IF ins.id = "sltiu" /\ RAB_INSTR_GET_rt(ins) = at THEN j
            ELSE IF ins.id = "jr" THEN -1
            ELSE FindSltiu(R, g, base, j + 1, end)

\* which register is recorded as the switch index
JtIndexReg(R, g, addu_index) == RAB_INSTR_GET_rs(RdIns(R, addu_index - 1, g))

NopAt(R, k) == IF k \in DOMAIN R THEN [R EXCEPT ![k] = PatchId(@, "nop", "nop")] ELSE R

JtTargets(e, jtbl_addr, num_cases) ==
    {RodataWord(e, (jtbl_addr - rodata_vaddr) + 4 * k) + gp_value : k \in 0..(num_cases - 1)}

JtOutsideRodata(e, jtbl_addr, num_cases) ==
    \/ ULT(jtbl_addr, rodata_vaddr)
    \/ ULT(rodata_vaddr + rodata_section_len(e), jtbl_addr + num_cases * 4)

JumpTable(e, R, L, i, g, crash) ==
    IF ~(i >= 7 /\ Len(e.rodata) > 0) THEN JtRes(R, L, FALSE)
    ELSE
      LET insn == R[i].instruction
          is_pic == R[i - 1].instruction.id = "addu" /\ RAB_INSTR_GET_rt(R[i - 1].instruction) = gp
          has_nop == R[i - B2N(is_pic) - 1].instruction.id = "nop"
          has_extra == R[i - B2N(is_pic) - B2N(has_nop) - 5].instruction.id # "beqz"
          lw0 == i - B2N(is_pic) - B2N(has_nop) - 1
          lw == IF R[lw0].instruction.id # "lw" THEN lw0 - 1 ELSE lw0
      IN IF ~(R[lw].instruction.id = "lw" /\ R[lw].linked_insn # -1) THEN JtRes(R, L, FALSE)
         ELSE
           LET addu0 == lw - 1
               addu_index == IF R[addu0].instruction.id # "addu" THEN addu0 - 1 ELSE addu0
               index_reg == JtIndexReg(R, g, addu_index)
           IN IF \/ R[addu_index].instruction.id # "addu"
                 \/ RdIns(R, addu_index - 1, g).id # "sll"
                 \/ get_dest_reg(RdIns(R, addu_index - 1, g)) # RAB_INSTR_GET_rs(insn)
              THEN JtRes(R, L, FALSE)
              ELSE
                LET andi0 == FindAndi(R, g, lw, 3, 4)
                    end == IF i = 368393 THEN 18 ELSE 14
                    sltiu_index == FindSltiu(R, g, lw - B2N(has_extra), 5, end)
                    andi_index == IF sltiu_index # -1 THEN -1 ELSE andi0
                    by_sltiu == sltiu_index # -1
                    by_andi == ~by_sltiu /\ andi_index # -1
                    found == by_sltiu \/ by_andi \/ i = 219382 \/ i = 370995
                    num_cases ==
                        IF by_sltiu
                        THEN getProcessedImmediate(RdIns(R, lw - B2N(has_extra) - sltiu_index, g))
                        ELSE IF by_andi
                        THEN getProcessedImmediate(RdIns(R, andi_index, g)) + 1
                        ELSE IF i = 219382 THEN 13 ELSE 12
                    jtbl_addr == R[lw].linked_value
                    R1 == IF is_pic THEN NopAt(R, i - 1) ELSE R
                    R2 == [R1 EXCEPT ![i].jtbl_addr = jtbl_addr,
                                     ![i].num_cases = num_cases,
                                     ![i].index_reg = index_reg]
                    R3 == NopAt(NopAt(NopAt(R2, lw), addu_index), addu_index - 1)
                    R4 == IF by_andi THEN R3 ELSE NopAt(R3, addu_index - 2)
                    oob_write == (addu_index - 1 < 0) \/ (~by_andi /\ addu_index - 2 < 0)
                IN IF ~found THEN JtRes(R, L, FALSE)
                   ELSE IF (oob_write /\ crash) \/ num_cases < 0
                           \/ JtOutsideRodata(e, jtbl_addr, num_cases)
                   THEN JtRes(R4, L, TRUE)
                   ELSE JtRes(R4, L \cup JtTargets(e, jtbl_addr, num_cases), FALSE)

\* --- one iteration of the r_pass1 loop -----------------------------------
P1Res(R, F, L, fail) == [r |-> R, f |-> F, labels |-> L, fail |-> fail]

\* BAL canonicalisation: bgezal $zero -> jal
P1Bal(R, i) ==
    LET ins == R[i].instruction
    IN IF ins.id = "bgezal" /\ RAB_INSTR_GET_rs(ins) = zero
       THEN [R EXCEPT ![i] = [PatchId(@, "jal", "jal")
                                 EXCEPT !.patched_addr = getProcessedImmediate(ins)]]
       ELSE R

JumpTarget(rec) ==
    IF rec.patched THEN rec.patched_addr ELSE getInstrIndexAsVram(rec.instruction)

\* the state after the jump-table recogniser returned jt
P1JumpTable(jt, F) == P1Res(jt.r, F, jt.labels, jt.fail)

\* the `if (descriptor->isJump)` block
P1Jumps(e, R, F, L, i, g, crash) ==
    LET ins == R[i].instruction
    IN IF ~isJump(ins.desc) THEN P1Res(R, F, L, FALSE)
       ELSE IF ins.id \in {"jal", "j"}
       THEN LET target == JumpTarget(R[i])
            IN P1Res(R, add_function(e, F, target), L \cup {target}, FALSE)
       ELSE IF ins.id = "jr"
       THEN P1JumpTable(JumpTable(e, R, L, i, g, crash), F)
       ELSE IF isIType(ins.desc)
       THEN P1Res(R, F, L \cup {getProcessedImmediate(ins)}, FALSE)
       ELSE P1Res(R, F, L, FALSE)

MemOpIds == {"sd", "sw", "sh", "sb", "lb", "lbu", "ld", "ldl", "ldr", "lh", "lhu",
             "lw", "lwu", "ldc1", "lwc1", "lwc2", "swc1", "swc2"}

\* GOT-global load via $gp: tag it and rewrite it to ORI (LI)
P1GotGlobal(e, R, i, got_entry) ==
    LET dest_vaddr == e.got_globals[got_entry + 1]
    IN [R EXCEPT ![i] = [PatchId(@, "ori", "ori")
                            EXCEPT !.is_global_got_memop = TRUE,
                                   !.linked_value = dest_vaddr,
                                   !.patched_addr = dest_vaddr]]

\* the state after r_link_with_lui returned lk
P1Linked(lk, L) == P1Res(lk.r, lk.f, L, lk.fail)

P1MemOp(e, R, F, L, i) ==
    LET ins == R[i].instruction
        mem_rs == RAB_INSTR_GET_rs(ins)
        mem_imm == getProcessedImmediate(ins)
    IN IF mem_rs = gp
       THEN LET got_entry == UDiv4(mem_imm + e.gp_value_adj)
            IN IF got_entry >= Len(e.got_locals)
                  /\ got_entry - Len(e.got_locals) < Len(e.got_globals)
               THEN IF ins.id = "lw"
                    THEN P1Res(P1GotGlobal(e, R, i, got_entry - Len(e.got_locals)), F, L, FALSE)
                    ELSE P1Res(R, F, L, TRUE)
               ELSE P1Res(R, F, L, FALSE)
       ELSE P1Linked(r_link_with_lui(e, R, F, i, mem_rs, mem_imm), L)

P1AddiuOri(e, R, F, L, i) ==
    LET ins == R[i].instruction
        rd == RAB_INSTR_GET_rd(ins)
        rs == RAB_INSTR_GET_rs(ins)
        imm == getProcessedImmediate(ins)
    IN IF rs = zero THEN P1Res(R, F, L, FALSE)
       ELSE IF rd # gp
       THEN P1Linked(r_link_with_lui(e, R, F, i, rs, imm), L)
       ELSE P1Res(R, F, L, FALSE)

\* the JALR case after r_link_with_jalr returned lk
P1JalrLinked(e, lk, L, i) ==
    IF lk.r[i].linked_insn # -1
    THEN P1Res([lk.r EXCEPT ![i] = [PatchId(@, "jal", "jal")
                                       EXCEPT !.patched_addr = lk.r[i].linked_value]],
               add_function(e, lk.f, lk.r[i].linked_value),
               L \cup {lk.r[i].linked_value}, FALSE)
    ELSE P1Res(lk.r, lk.f, L, FALSE)

P1Jalr(e, R, F, L, i) ==
    IF RAB_INSTR_GET_rs(R[i].instruction) # t9 THEN P1Res(R, F, L, FALSE)
    ELSE P1JalrLinked(e, r_link_with_jalr(e, R, F, i), L, i)

\* the `switch (rinsns[i].instruction.uniqueId)` block
P1Switch(e, R, F, L, i) ==
    LET id == R[i].instruction.id
    IN CASE id = "mtc1" ->
              P1Res(MtcScan(R, i, RAB_INSTR_GET_rt(R[i].instruction), i - 1), F, L, FALSE)
         [] id \in MemOpIds -> P1MemOp(e, R, F, L, i)
         [] id \in {"addiu", "ori"} -> P1AddiuOri(e, R, F, L, i)
         [] id = "jalr" -> P1Jalr(e, R, F, L, i)
         [] OTHER -> P1Res(R, F, L, FALSE)

\* GP-restore elision: addu $gp, $gp, $t9 and the two instructions before it
P1GpRestore(R, i) ==
    LET ins == R[i].instruction
    IN IF /\ ins.id = "addu"
          /\ RAB_INSTR_GET_rd(ins) = gp
          /\ RAB_INSTR_GET_rs(ins) = gp
          /\ RAB_INSTR_GET_rt(ins) = t9
          /\ i >= 2
       THEN NopAt(NopAt(NopAt(R, i - 2), i - 1), i)
       ELSE R

\* the end of the loop body, given the outcome sw of the switch block
P1AfterSwitch(sw, i) ==
    IF sw.fail THEN sw ELSE P1Res(P1GpRestore(sw.r, i), sw.f, sw.labels, FALSE)

\* the rest of the loop body, given the outcome j of the isJump block
P1AfterJumps(e, j, i) ==
    IF j.fail THEN j ELSE P1AfterSwitch(P1Switch(e, j.r, j.f, j.labels, i), i)

r_pass1_iter(e, R, F, L, i, g, crash) ==
    P1AfterJumps(e, P1Jumps(e, P1Bal(R, i), F, L, i, g, crash), i)

\* ------------------------------------------------------------------------
\* inspect_data_function_pointers
\* ------------------------------------------------------------------------
IsDataFunctionPointer(e, w) ==
    /\ w \notin {4393728, 4406016, 4849664}
    /\ InText(e, w)
    /\ w % 4 = 0

\* words of one section, in order; dfp is the vector of second components
\* (the pointed-to addresses)
RECURSIVE InspectWords(_, _, _, _, _, _)
InspectWords(e, words, k, dfp, L, F) ==
    IF k > Len(words) THEN [dfp |-> dfp, labels |-> L, f |-> F]
    ELSE LET w == words[k]
         IN IF IsDataFunctionPointer(e, w)
            THEN InspectWords(e, words, k + 1, Append(dfp, w), L \cup {w},
                              [MapTouch(F, w) EXCEPT ![w].referenced_by_function_pointer = TRUE])
            ELSE InspectWords(e, words, k + 1, dfp, L, F)

inspect_data_function_pointers(e, words, dfp, L, F) ==
    InspectWords(e, words, 1, dfp, L, F)

\* ------------------------------------------------------------------------
\* r_pass2: function table
\* ------------------------------------------------------------------------
SymName(e, a) == IF a \in DOMAIN e.symbol_names THEN e.symbol_names[a] ELSE ""

P2Res(R, F, li, fail) == [r |-> R, f |-> F, li |-> li, fail |-> fail]

IsJrRa(ins) == ins.id = "jr" /\ RAB_INSTR_GET_rs(ins) = ra

\* the address that the first loop of r_pass2 takes for a GOT-global LI
P2LiAddr(rec) == getProcessedImmediate(rec.instruction)

\* first loop of r_pass2, iteration i
r_pass2_returns(e, R, F, li, i) ==
    LET addr == i_to_addr(i)
        insn == R[i]
        fn == find_function(F, addr)
        jr_fail == IsJrRa(insn.instruction) /\ fn = NoFunction
        F1 == IF IsJrRa(insn.instruction) /\ fn # NoFunction
              THEN [F EXCEPT ![fn].returns = Append(@, addr + 4)]
              ELSE F
        faddr == P2LiAddr(insn)
        is_li == insn.is_global_got_memop /\ InText(e, faddr)
    IN IF jr_fail THEN P2Res(R, F, li, TRUE)
       ELSE IF is_li
       THEN P2Res(R, [MapTouch(F1, faddr) EXCEPT ![faddr].referenced_by_function_pointer = TRUE],
                  li \cup {faddr}, FALSE)
       ELSE P2Res(R, F1, li, FALSE)

SetInstr(R, k, ins) == [R EXCEPT ![k].patched = TRUE, ![k].instruction = ins]

PatchJal(R, k, target) ==
    [R EXCEPT ![k] = [PatchId(@, "jal", "jal") EXCEPT !.patched_addr = target]]

\* hand patch of xmalloc: jal alloc_new; <arg setup>; jr $ra; nop ...
P2Xmalloc(e, R, F, fa) ==
    LET i == addr_to_i(fa)
        alloc_new_addr == i_to_addr(i + 7)
        n == Len(e.text)
        R1 == PatchJal(R, i, alloc_new_addr)
    IN IF SymName(e, alloc_new_addr) # "alloc_new" \/ i + 6 > n
       THEN P2Res(R1, F, {}, TRUE)
       ELSE LET R2 == IF R1[i + 6].instruction.id \in {"ori", "addiu"}
                      THEN [R1 EXCEPT ![i + 1] = R1[i + 6]]
                      ELSE [R1 EXCEPT ![i + 1] = R1[i + 4]]
                R3 == SetInstr(R2, i + 2, JR(ra))
                R4 == SetInstr(SetInstr(SetInstr(SetInstr(R3, i + 3, NOP), i + 4, NOP),
                                        i + 5, NOP), i + 6, NOP)
            IN P2Res(R4, [F EXCEPT ![fa].returns = Append(@, i_to_addr(i + 2) + 4)], {}, FALSE)

\* hand patch of xfree: jal alloc_dispose; <arg setup>; jr $ra; nop
P2Xfree(e, R, F, fa) ==
    LET i == addr_to_i(fa)
        a0_ == i_to_addr(i + 4)
        alloc_dispose_addr == IF SymName(e, a0_ + 4) = "alloc_dispose" THEN a0_ + 4 ELSE a0_
        n == Len(e.text)
        R1 == PatchJal(R, i, alloc_dispose_addr)
    IN IF SymName(e, alloc_dispose_addr) # "alloc_dispose" \/ i + 3 > n
       THEN P2Res(R1, F, {}, TRUE)
       ELSE LET R2 == [R1 EXCEPT ![i + 1] = R1[i + 3]]
                R3 == SetInstr(R2, i + 2, JR(ra))
                R4 == SetInstr(R3, i + 3, NOP)
            IN P2Res(R4, [F EXCEPT ![fa].returns = Append(@, i_to_addr(i + 2) + 4)], {}, FALSE)

\* lw; move; jalr at the function entry
IsTailPattern(R, i) ==
    /\ R[i].instruction.id = "lw"
    /\ R[i + 1].instruction.id = "move"
    /\ R[i + 2].instruction.id = "jalr"

\* variant without the mcount_addr test
NoRetAbortsAnywhere(e, R, fa) == ~IsTailPattern(R, addr_to_i(fa))

\* the verdict of r_pass2 on a function whose returns vector is empty and
\* that is none of __start / xmalloc / xfree:  TRUE = "no ret" abort
NoRetAborts(e, R, fa) ==
    /\ ~IsTailPattern(R, addr_to_i(fa))
    /\ ULT(e.mcount_addr, fa)

P2EndAddr(e, F, fa) ==
    LET above == {a \in DOMAIN F : ULT(fa, a)}
    IN IF above = {} THEN text_vaddr + text_section_len(e) ELSE MinAddr(above)

\* second loop of r_pass2, iteration for the function keyed fa
r_pass2_function(e, R, F, fa) ==
    LET name == SymName(e, fa)
        step ==
            IF Len(F[fa].returns) # 0 THEN P2Res(R, F, {}, FALSE)
            ELSE CASE name = "__start" -> P2Res(R, F, {}, FALSE)
                   [] name = "xmalloc" -> P2Xmalloc(e, R, F, fa)
                   [] name = "xfree" -> P2Xfree(e, R, F, fa)
                   [] OTHER -> P2Res(R, F, {}, NoRetAborts(e, R, fa))
    IN IF step.fail THEN step
       ELSE P2Res(step.r, [step.f EXCEPT ![fa].end_addr = P2EndAddr(e, F, fa)], {}, FALSE)

\* ------------------------------------------------------------------------
\* r_pass3: control-flow graph
\* ------------------------------------------------------------------------
Edge(i, fentry, fexit, ext, fptr) ==
    [i |-> i, function_entry |-> fentry, function_exit |-> fexit,
     extern_function |-> ext, function_pointer |-> fptr]

\* state threaded through the r_add_edge calls of one iteration:
\* fail = the write to rinsns[to].predecessors went outside the vector and
\* the process died there
P3Res(R, fail) == [r |-> R, fail |-> fail]

\* variant of r_add_edge that keeps only the last predecessor of a target
r_add_edge_last_pred(st, from, to, fentry, fexit, ext, fptr, crash) ==
    IF st.fail THEN st
    ELSE LET R1 == [st.r EXCEPT ![from].successors = Append(@, Edge(to, fentry, fexit, ext, fptr))]
         IN IF to \in DOMAIN st.r
            THEN P3Res([R1 EXCEPT ![to].predecessors = <<Edge(from, fentry, fexit, ext, fptr)>>],
                       FALSE)
            ELSE P3Res(R1, crash)

\* r_add_edge: the successor is pushed first; a `to` outside the vector makes
\* the predecessor push a wild write (it kills the run when crash, else the
\* run goes on with the vector as it is)
r_add_edge(st, from, to, fentry, fexit, ext, fptr, crash) ==
    IF st.fail THEN st
    ELSE LET R1 == [st.r EXCEPT ![from].successors = Append(@, Edge(to, fentry, fexit, ext, fptr))]
         IN IF to \in DOMAIN st.r
            THEN P3Res([R1 EXCEPT ![to].predecessors = Append(@, Edge(from, fentry, fexit, ext, fptr))],
                       FALSE)
            ELSE P3Res(R1, crash)

PlainEdge(st, from, to, crash) == r_add_edge(st, from, to, FALSE, FALSE, FALSE, FALSE, crash)

BranchTarget(rec, i) ==
    IF rec.patched THEN rec.patched_addr
    ELSE i_to_addr(i) + getBranchOffset(rec.instruction)

SetNoFollow(st, k) ==
    IF st.fail THEN st ELSE P3Res([st.r EXCEPT ![k].no_following_successor = TRUE], FALSE)

CondBranchIds == {"beq", "bgez", "bgtz", "blez", "bltz", "bne", "beqz", "bnez", "bc1f", "bc1t"}
LikelyBranchIds == {"beql", "bgezl", "bgtzl", "blezl", "bltzl", "bnel", "bc1fl", "bc1tl"}

RECURSIVE P3JtblEdges(_, _, _, _, _, _)
P3JtblEdges(e, st, i, j, num_cases, crash) ==
    IF j >= num_cases THEN st
    ELSE LET jtbl_pos == st.r[i].jtbl_addr - rodata_vaddr
             dest_addr == RodataWord(e, jtbl_pos + 4 * j) + gp_value
         IN P3JtblEdges(e, PlainEdge(st, i + 1, addr_to_i(dest_addr), crash), i, j + 1, num_cases, crash)

RECURSIVE P3ExitEdges(_, _, _, _, _)
P3ExitEdges(st, rets, k, i, crash) ==
    IF k > Len(rets) THEN st
    ELSE P3ExitEdges(r_add_edge(st, addr_to_i(rets[k]), i + 2, FALSE, TRUE, FALSE, FALSE, crash),
                     rets, k + 1, i, crash)

\* does the JAL count as a call of a function of this program?
JalIsInternal(e, dest) == ULT(e.mcount_addr, dest) /\ InText(e, dest)

\* a JR without jump table must be `jr $ra` (the assert of r_pass3)
P3JrSupported(rec) ==
    rec.jtbl_addr # 0 \/ RAB_INSTR_GET_rs(rec.instruction) = ra

\* mutant of P3Fallthrough: the edge to i + 1 is left out
P3FallthroughDropped(st, i, crash) == st

\* the fall-through edge that every visited instruction gets
P3Fallthrough(st, i, crash) == PlainEdge(st, i, i + 1, crash)

\* variant of P3Jal that treats every JAL as a call through a pointer
P3JalAsPointer(e, F, st0, i, crash) ==
    SetNoFollow(r_add_edge(PlainEdge(st0, i, i + 1, crash), i + 1, i + 2,
                           FALSE, FALSE, FALSE, TRUE, crash),
                i + 1)

P3Jal(e, F, st0, i, crash) ==
    LET st == P3Fallthrough(st0, i, crash)
        dest == JumpTarget(st0.r[i])
    IN IF JalIsInternal(e, dest)
       THEN LET st1 == r_add_edge(st, i + 1, addr_to_i(dest), TRUE, FALSE, FALSE, FALSE, crash)
            IN IF dest \notin DOMAIN F THEN P3Res(st1.r, TRUE)
               ELSE SetNoFollow(P3ExitEdges(st1, F[dest].returns, 1, i, crash), i + 1)
       ELSE SetNoFollow(r_add_edge(st, i + 1, i + 2, FALSE, FALSE, TRUE, FALSE, crash), i + 1)

P3Jr(e, st0, i, crash) ==
    LET st == P3Fallthrough(st0, i, crash)
        rec == st0.r[i]
        jtbl_pos == rec.jtbl_addr - rodata_vaddr
    IN IF rec.jtbl_addr # 0
       THEN IF ULT(jtbl_pos, rodata_section_len(e))
               /\ ULE(jtbl_pos + rec.num_cases * 4, rodata_section_len(e))
            THEN SetNoFollow(P3JtblEdges(e, st, i, 0, rec.num_cases, crash), i + 1)
            ELSE P3Res(st.r, TRUE)
       ELSE IF P3JrSupported(rec) THEN SetNoFollow(st, i + 1)
            ELSE P3Res(st.r, TRUE)

\* iteration i of the r_pass3 loop
r_pass3_iter(e, R, F, i, crash) ==
    LET rec == R[i]
        id == rec.instruction.id
        st0 == P3Res(R, FALSE)
    IN IF rec.no_following_successor THEN st0
       ELSE CASE id \in CondBranchIds ->
                   PlainEdge(P3Fallthrough(st0, i, crash), i + 1,
                             addr_to_i(BranchTarget(rec, i)), crash)
              [] id \in LikelyBranchIds ->
                   SetNoFollow(
                       PlainEdge(PlainEdge(P3Fallthrough(st0, i, crash), i, i + 2, crash),
                                 i + 1, addr_to_i(BranchTarget(rec, i)), crash),
                       i + 1)
              [] id \in {"b", "j"} ->
                   SetNoFollow(
                       PlainEdge(P3Fallthrough(st0, i, crash), i + 1,
                                 addr_to_i(BranchTarget(rec, i)), crash),
                       i + 1)
              [] id = "jr" -> P3Jr(e, st0, i, crash)
              [] id = "jal" -> P3Jal(e, F, st0, i, crash)
              [] id = "jalr" ->
                   SetNoFollow(
                       r_add_edge(P3Fallthrough(st0, i, crash), i + 1, i + 2,
                                  FALSE, FALSE, FALSE, TRUE, crash),
                       i + 1)
              [] OTHER -> P3Fallthrough(st0, i, crash)

\* ------------------------------------------------------------------------
\* Liveness masks: a uint64_t is the set of its set bit positions.
\* Bit 0 is the "reachable" bit (1U), register r is bit r + 1.
\* ------------------------------------------------------------------------
ReachBit == {0}
r_map_reg(reg) == {reg + 1}

RegsMask(regs) == {r + 1 : r \in regs}

r_temporary_regs == RegsMask((8..15) \cup {24, 25})

CallerSaved == RegsMask({v0, a0, a1, a2, a3, v1}) \cup r_temporary_regs

TYPE_1D_1S_Ids == {"add", "addu", "addi", "addiu", "andi", "ori", "lb", "lbu", "lh",
                   "lhu", "lw", "lwl", "move", "negu", "not", "sll", "slti", "sltiu",
                   "sra", "srl", "xori", "mfhi", "mflo"}
TYPE_1D_2S_Ids == {"and", "or", "nor", "sllv", "slt", "sltu", "srav", "srlv", "subu", "xor"}
TYPE_1D_Ids == {"cfc1", "mfc1", "lui"}
TYPE_1S_Ids == {"ctc1", "bgez", "bgezl", "bgtz", "bgtzl", "blez", "blezl", "bltz",
                "bltzl", "beqz", "bnez", "mtc1", "jalr"}
TYPE_2S_Ids == {"beq", "beql", "bne", "bnel", "sb", "sh", "sw", "swl", "tne", "teq",
                "tge", "tgeu", "tlt"}
TYPE_D_LO_HI_2S_Ids == {"div", "divu", "mult", "multu"}
TYPE_1S_POS1_Ids == {"lwc1", "ldc1", "swc1", "sdc1"}

\* r_insn_to_type rewrites the rs field of a jump-table JR to index_reg
\* before it classifies the instruction
InsnTypeEffect(rec) ==
    IF rec.instruction.id = "jr" /\ rec.jtbl_addr # 0
    THEN [rec EXCEPT !.instruction.rs = rec.index_reg]
    ELSE rec

r_insn_to_type(rec) ==
    LET id == rec.instruction.id
    IN CASE id \in TYPE_1D_1S_Ids -> "TYPE_1D_1S"
         [] id \in TYPE_1D_2S_Ids -> "TYPE_1D_2S"
         [] id \in TYPE_1D_Ids -> "TYPE_1D"
         [] id \in TYPE_1S_Ids -> "TYPE_1S"
         [] id \in TYPE_2S_Ids -> "TYPE_2S"
         [] id \in TYPE_D_LO_HI_2S_Ids -> "TYPE_D_LO_HI_2S"
         [] id \in TYPE_1S_POS1_Ids -> "TYPE_1S_POS1"
         [] id = "jr" ->
              IF RAB_INSTR_GET_rt(rec.instruction) = ra THEN "TYPE_NOP" ELSE "TYPE_1S"
         [] OTHER -> "TYPE_NOP"

get_dest_reg_mask(ins) ==
    IF modifiesRt(ins.desc) THEN r_map_reg(RAB_INSTR_GET_rt(ins))
    ELSE IF modifiesRd(ins.desc) THEN r_map_reg(RAB_INSTR_GET_rd(ins))
    ELSE {}

get_single_source_reg_mask(ins) ==
    IF hasOperandAlias_rs(ins) THEN r_map_reg(RAB_INSTR_GET_rs(ins))
    ELSE IF hasOperandAlias_rt(ins) THEN r_map_reg(RAB_INSTR_GET_rt(ins))
    ELSE {}

get_all_source_reg_mask(ins) ==
    (IF hasOperandAlias_rs(ins) THEN r_map_reg(RAB_INSTR_GET_rs(ins)) ELSE {})
    \cup (IF hasOperandAlias_rt(ins) /\ ~modifiesRt(ins.desc)
          THEN r_map_reg(RAB_INSTR_GET_rt(ins)) ELSE {})

\* ------------------------------------------------------------------------
\* Extern function catalog (the entries of extern_functions that the
\* inputs of this model can name); params[1] is the return type
\* ------------------------------------------------------------------------
FLAG_NO_MEM == 1
FLAG_VARARG == 2

ExternFn(params, flags) == [params |-> params, flags |-> flags]

extern_functions ==
    [name \in {"exit", "printf", "memcpy", "strtoll", "sqrt", "ldexp", "__ll_mul", "fp_class_d"} |->
        CASE name = "exit" -> ExternFn(<<"v", "i">>, 0)
          [] name = "printf" -> ExternFn(<<"i", "p">>, FLAG_VARARG)
          [] name = "memcpy" -> ExternFn(<<"p", "p", "p", "u">>, 0)
          [] name = "strtoll" -> ExternFn(<<"l", "p", "p", "i">>, 0)
          [] name = "sqrt" -> ExternFn(<<"d", "d">>, FLAG_NO_MEM)
          [] name = "ldexp" -> ExternFn(<<"d", "d", "i">>, FLAG_NO_MEM)
          [] name = "__ll_mul" -> ExternFn(<<"l", "l", "l">>, FLAG_NO_MEM)
          [] name = "fp_class_d" -> ExternFn(<<"i", "d">>, FLAG_NO_MEM)]

\* the lookup both passes do: symbol at `address`, then the catalog entry of
\* that name; "none" when either is missing (assert(found_fn) fires)
FindExtern(e, address) ==
    LET name == SymName(e, address)
    IN IF address \in DOMAIN e.symbol_names /\ name \in DOMAIN extern_functions
       THEN name ELSE "none"

\* ------------------------------------------------------------------------
\* r_pass4: forward pass
\* ------------------------------------------------------------------------
livein_func_start == ReachBit \cup RegsMask({a0, a1, sp, zero})
livein_func_ptr == livein_func_start \cup RegsMask({a2, a3})

LvRes(R, q, fail) == [r |-> R, q |-> q, fail |-> fail]

RECURSIVE SeedLivein(_, _, _, _)
SeedLivein(R, addrs, k, mask) ==
    IF k > Len(addrs) THEN R
    ELSE SeedLivein([R EXCEPT ![addr_to_i(addrs[k])].f_livein = mask], addrs, k + 1, mask)

\* the seeding part of r_pass4 (before the while loop)
r_pass4_seed(e, R, dfp, li) ==
    LET main_i == addr_to_i(e.main_addr)
        R1 == [R EXCEPT ![main_i].f_livein = livein_func_start]
        R2 == SeedLivein(R1, dfp, 1, livein_func_ptr)
        R3 == SeedLivein(R2, SortedAddrs(li), 1, livein_func_ptr)
    IN LvRes(R3, <<e.main_addr>> \o dfp \o SortedAddrs(li), main_i \notin DOMAIN R)

\* forward transfer function of one instruction
ForwardTransfer(rec, live) ==
    LET ins == rec.instruction
        ty == r_insn_to_type(rec)
    IN CASE ty = "TYPE_1D" -> live \cup get_dest_reg_mask(ins)
         [] ty = "TYPE_1D_1S" ->
              IF live \cap get_single_source_reg_mask(ins) # {}
              THEN live \cup get_dest_reg_mask(ins) ELSE live
         [] ty = "TYPE_1D_2S" ->
              IF get_all_source_reg_mask(ins) \subseteq live
              THEN live \cup get_dest_reg_mask(ins) ELSE live
         [] ty = "TYPE_D_LO_HI_2S" ->
              IF get_all_source_reg_mask(ins) \subseteq live
              THEN live \cup r_map_reg(lo) \cup r_map_reg(hi) ELSE live
         [] OTHER -> live

FwdExitKeep == ReachBit \cup RegsMask({v0, v1, zero})
FwdEntryKeep == ReachBit \cup RegsMask({v0, a0, a1, a2, a3, sp, zero})

\* return registers of an extern by the first character of its params
ExternRetMask(name) ==
    LET ret_type == extern_functions[name].params[1]
    IN CASE ret_type \in {"i", "u", "p"} -> r_map_reg(v0)
         [] ret_type \in {"l", "j"} -> r_map_reg(v0) \cup r_map_reg(v1)
         [] OTHER -> {}

\* the callee that the forward pass looks up for an extern edge leaving i
FwdExternAddress(R, i) == JumpTarget(R[i - 1])

\* variant of FwdEdgeMask that sends the mask on unchanged
FwdEdgeMaskPlain(e, R, i, ed, live) == live

\* mask sent across one successor edge; "none" extern = assert(found_fn)
FwdEdgeMask(e, R, i, ed, live) ==
    IF ed.function_exit THEN live \cap FwdExitKeep
    ELSE IF ed.function_entry THEN live \cap FwdEntryKeep
    ELSE IF ed.extern_function
    THEN (live \ CallerSaved) \cup ExternRetMask(FindExtern(e, FwdExternAddress(R, i)))
    ELSE IF ed.function_pointer
    THEN (live \ CallerSaved) \cup r_map_reg(v0) \cup r_map_reg(v1)
    ELSE live

FwdEdgeFails(e, R, i, ed) ==
    /\ ~ed.function_exit /\ ~ed.function_entry /\ ed.extern_function
    /\ FindExtern(e, FwdExternAddress(R, i)) = "none"

\* mutant of FwdPropagate: the mask is overwritten, not merged
FwdPropagateAssign(st, to, new_live, crash) ==
    IF to \notin DOMAIN st.r THEN LvRes(st.r, st.q, crash)
    ELSE IF new_live \subseteq st.r[to].f_livein THEN st
    ELSE LvRes([st.r EXCEPT ![to].f_livein = new_live],
               Append(st.q, i_to_addr(to)), FALSE)

\* mutant of FwdPropagate: the target is pushed whether or not it grew
FwdPropagateAlways(st, to, new_live, crash) ==
    IF to \notin DOMAIN st.r THEN LvRes(st.r, st.q, crash)
    ELSE LvRes([st.r EXCEPT ![to].f_livein = @ \cup new_live],
               Append(st.q, i_to_addr(to)), FALSE)

\* `if ((f_livein | new_live) != f_livein) { f_livein |= new_live; push }`
FwdPropagate(st, to, new_live, crash) ==
    IF to \notin DOMAIN st.r THEN LvRes(st.r, st.q, crash)
    ELSE IF new_live \subseteq st.r[to].f_livein THEN st
    ELSE LvRes([st.r EXCEPT ![to].f_livein = @ \cup new_live],
               Append(st.q, i_to_addr(to)), FALSE)

RECURSIVE P4Edges(_, _, _, _, _, _)
P4Edges(e, st, i, k, live, crash) ==
    IF st.fail \/ k > Len(st.r[i].successors) THEN st
    ELSE LET ed == st.r[i].successors[k]
         IN IF FwdEdgeFails(e, st.r, i, ed) THEN LvRes(st.r, st.q, TRUE)
            ELSE P4Edges(e, FwdPropagate(st, ed.i, FwdEdgeMask(e, st.r, i, ed, live), crash),
                         i, k + 1, live, crash)

HasEntryEdge(edges) == \E k \in 1..Len(edges) : ~edges[k].function_exit /\ edges[k].function_entry

\* one iteration of the while loop of r_pass4 (q is not empty)
r_pass4_pop(e, R, q, crash) ==
    LET addr == q[Len(q)]
        q1 == SubSeq(q, 1, Len(q) - 1)
        i == addr_to_i(addr)
        R1 == [R EXCEPT ![i] = InsnTypeEffect(@)]
        insn == R1[i]
        live0 == ForwardTransfer(insn, insn.f_livein \cup ReachBit)
    IN IF live0 \subseteq insn.f_liveout THEN LvRes(R1, q1, FALSE)
       ELSE LET live == live0 \cup insn.f_liveout
                R2 == [R1 EXCEPT ![i].f_liveout = live]
                st == P4Edges(e, LvRes(R2, q1, FALSE), i, 1, live, crash)
            IN IF st.fail \/ ~HasEntryEdge(insn.successors) THEN st
               ELSE FwdPropagate(st, i + 1, live \ CallerSaved, crash)

\* ------------------------------------------------------------------------
\* r_pass5: backward pass
\* ------------------------------------------------------------------------
RECURSIVE SeedLiveout(_, _, _, _)
SeedLiveout(R, addrs, k, mask) ==
    IF k > Len(addrs) THEN R
    ELSE SeedLiveout([R EXCEPT ![addr_to_i(addrs[k])].b_liveout = mask], addrs, k + 1, mask)

\* returns of the listed functions, concatenated in list order
RECURSIVE ReturnsOf(_, _, _)
ReturnsOf(F, addrs, k) ==
    IF k > Len(addrs) THEN <<>>
    ELSE F[addrs[k]].returns \o ReturnsOf(F, addrs, k + 1)

RECURSIVE ReachableAddrs(_, _)
ReachableAddrs(R, i) ==
    IF i \notin DOMAIN R THEN <<>>
    ELSE (IF R[i].f_livein # {} THEN <<i_to_addr(i)>> ELSE <<>>) \o ReachableAddrs(R, i + 1)

\* the seeding part of r_pass5 (before the while loop)
r_pass5_seed(e, R, F, dfp, li) ==
    IF e.main_addr \notin DOMAIN F THEN LvRes(R, <<>>, TRUE)
    ELSE LET main_rets == F[e.main_addr].returns
             ptr_rets == ReturnsOf(F, dfp, 1) \o ReturnsOf(F, SortedAddrs(li), 1)
             R1 == SeedLiveout(R, main_rets, 1, ReachBit \cup r_map_reg(v0))
             R2 == SeedLiveout(R1, ptr_rets, 1, ReachBit \cup r_map_reg(v0) \cup r_map_reg(v1))
         IN LvRes(R2, main_rets \o ptr_rets \o ReachableAddrs(R2, 0), FALSE)

\* backward transfer function of one instruction
BackwardTransfer(rec, live) ==
    LET ins == rec.instruction
        ty == r_insn_to_type(rec)
        dest == get_dest_reg_mask(ins)
        hilo == r_map_reg(lo) \cup r_map_reg(hi)
    IN CASE ty \in {"TYPE_1S", "TYPE_1S_POS1"} -> live \cup get_single_source_reg_mask(ins)
         [] ty = "TYPE_2S" -> live \cup get_all_source_reg_mask(ins)
         [] ty = "TYPE_1D" -> live \ dest
         [] ty = "TYPE_1D_1S" ->
              IF live \cap dest # {}
              THEN (live \ dest) \cup get_single_source_reg_mask(ins) ELSE live
         [] ty = "TYPE_1D_2S" ->
              IF live \cap dest # {}
              THEN (live \ dest) \cup get_all_source_reg_mask(ins) ELSE live
         [] ty = "TYPE_D_LO_HI_2S" ->
              IF live \cap hilo # {}
              THEN (live \ hilo) \cup get_all_source_reg_mask(ins) ELSE live \ hilo
         [] OTHER -> live

BwdExitKeep == ReachBit \cup RegsMask({v0, v1})
BwdEntryKeep == ReachBit \cup RegsMask({v0, a0, a1, a2, a3, sp})

\* one step of the O32 argument walk: st = [pos, pos_float, only_floats, args]
ArgAlign(pos) == IF pos % 1 # 0 THEN pos + 1 ELSE pos

ArgReg(pos) == r_map_reg(a0 + pos)

ArgStep(st, c) ==
    CASE c \in {"i", "u", "p", "t"} ->
           [st EXCEPT !.only_floats = FALSE,
                      !.args = IF st.pos < 4 THEN @ \cup ArgReg(st.pos) ELSE @,
                      !.pos = @ + 1]
      [] c = "f" ->
           IF st.only_floats /\ st.pos_float < 4
           THEN [st EXCEPT !.pos_float = @ + 2, !.pos = @ + 1]
           ELSE [st EXCEPT !.args = IF st.pos < 4 THEN @ \cup ArgReg(st.pos) ELSE @,
                           !.pos = @ + 1]
      [] c = "d" ->
           LET pos == ArgAlign(st.pos)
           IN IF st.only_floats /\ st.pos_float < 4
              THEN [st EXCEPT !.pos_float = @ + 2, !.pos = pos + 2]
              ELSE [st EXCEPT !.args = IF pos < 4 THEN @ \cup ArgReg(pos) \cup ArgReg(pos + 1) ELSE @,
                              !.pos = pos + 2]
      [] c \in {"l", "j"} ->
           LET pos == ArgAlign(st.pos)
           IN [st EXCEPT !.only_floats = FALSE,
                         !.args = IF pos < 4 THEN @ \cup ArgReg(pos) \cup ArgReg(pos + 1) ELSE @,
                         !.pos = pos + 2]
      [] OTHER -> st

RECURSIVE ArgWalk(_, _, _)
ArgWalk(st, params, k) ==
    IF k > Len(params) THEN st ELSE ArgWalk(ArgStep(st, params[k]), params, k + 1)

\* argument registers of an extern (the `args` mask of r_pass5)
ExternArgMask(name) ==
    LET fn == extern_functions[name]
        vararg == IF (fn.flags \div FLAG_VARARG) % 2 = 1
                  THEN RegsMask({a0, a1, a2, a3}) ELSE {}
        st0 == [pos |-> 0, pos_float |-> 0, only_floats |-> TRUE, args |-> ReachBit \cup vararg]
    IN ArgWalk(st0, fn.params, 2).args \cup r_map_reg(sp)

\* the callee that the backward pass looks up for an extern edge entering i
BwdExternAddress(R, i) ==
    IF R[i].patched THEN R[i].patched_addr ELSE getInstrIndexAsVram(R[i - 2].instruction)

BwdEdgeMask(e, R, i, ed, live) ==
    IF ed.function_exit THEN live \cap BwdExitKeep
    ELSE IF ed.function_entry THEN live \cap BwdEntryKeep
    ELSE IF ed.extern_function
    THEN (live \ CallerSaved) \cup ExternArgMask(FindExtern(e, BwdExternAddress(R, i)))
    ELSE IF ed.function_pointer
    THEN (live \ CallerSaved) \cup RegsMask({a0, a1, a2, a3})
    ELSE live

BwdEdgeFails(e, R, i, ed) ==
    /\ ~ed.function_exit /\ ~ed.function_entry /\ ed.extern_function
    /\ FindExtern(e, BwdExternAddress(R, i)) = "none"

\* mutant of BwdPropagate: the mask is overwritten, not merged
BwdPropagateAssign(st, to, new_live, crash) ==
    IF to \notin DOMAIN st.r THEN LvRes(st.r, st.q, crash)
    ELSE IF new_live \subseteq st.r[to].b_liveout THEN st
    ELSE LvRes([st.r EXCEPT ![to].b_liveout = new_live],
               Append(st.q, i_to_addr(to)), FALSE)

BwdPropagate(st, to, new_live, crash) ==
    IF to \notin DOMAIN st.r THEN LvRes(st.r, st.q, crash)
    ELSE IF new_live \subseteq st.r[to].b_liveout THEN st
    ELSE LvRes([st.r EXCEPT ![to].b_liveout = @ \cup new_live],
               Append(st.q, i_to_addr(to)), FALSE)

RECURSIVE P5Edges(_, _, _, _, _, _)
P5Edges(e, st, i, k, live, crash) ==
    IF st.fail \/ k > Len(st.r[i].predecessors) THEN st
    ELSE LET ed == st.r[i].predecessors[k]
         IN IF BwdEdgeFails(e, st.r, i, ed) THEN LvRes(st.r, st.q, TRUE)
            ELSE P5Edges(e, BwdPropagate(st, ed.i, BwdEdgeMask(e, st.r, i, ed, live), crash),
                         i, k + 1, live, crash)

\* the skip-call edge of the backward pass: i -> i - 1, caller-saved cleared
BwdSkipCall(st, i, live, crash) == BwdPropagate(st, i - 1, live \ CallerSaved, crash)

HasExitEdge(edges) == \E k \in 1..Len(edges) : edges[k].function_exit

\* one iteration of the while loop of r_pass5 (q is not empty)
r_pass5_pop(e, R, q, crash) ==
    LET addr == q[Len(q)]
        q1 == SubSeq(q, 1, Len(q) - 1)
        i == addr_to_i(addr)
        R1 == [R EXCEPT ![i] = InsnTypeEffect(@)]
        insn == R1[i]
        live0 == BackwardTransfer(insn, insn.b_liveout \cup ReachBit)
    IN IF live0 \subseteq insn.b_livein THEN LvRes(R1, q1, FALSE)
       ELSE LET live == live0 \cup insn.b_livein
                R2 == [R1 EXCEPT ![i].b_livein = live]
                st == P5Edges(e, LvRes(R2, q1, FALSE), i, 1, live, crash)
            IN IF st.fail \/ ~HasExitEdge(insn.predecessors) THEN st
               ELSE BwdSkipCall(st, i, live, crash)

\* ------------------------------------------------------------------------
\* r_pass6: signature inference, iteration for the function keyed fa
\* ------------------------------------------------------------------------
BothLive(rec_f, rec_b, reg) == r_map_reg(reg) \subseteq (rec_f \cap rec_b)

\* variant that does not look at $v0
NretStepAlways(nret, rec) ==
    IF BothLive(rec.f_liveout, rec.b_liveout, v1) THEN 2
    ELSE IF nret = 0 THEN 1
    ELSE nret

\* nret after looking at one return, given nret so far
NretStep(nret, rec) ==
    IF BothLive(rec.f_liveout, rec.b_liveout, v1) THEN 2
    ELSE IF BothLive(rec.f_liveout, rec.b_liveout, v0) /\ nret = 0 THEN 1
    ELSE nret

RECURSIVE NretOf(_, _, _, _)
NretOf(R, rets, k, nret) ==
    IF k > Len(rets) THEN nret
    ELSE NretOf(R, rets, k + 1, NretStep(nret, R[addr_to_i(rets[k])]))

RECURSIVE NargsOf(_, _, _)
NargsOf(insn, i, nargs) ==
    IF i >= 4 THEN nargs
    ELSE NargsOf(insn, i + 1,
                 IF BothLive(insn.f_livein, insn.b_livein, a0 + i) THEN 1 + i ELSE nargs)

r_pass6_function(R, F, fa) ==
    LET f == F[fa]
        insn == R[addr_to_i(fa)]
    IN [F EXCEPT ![fa].nret = NretOf(R, f.returns, 1, f.nret),
                 ![fa].nargs = NargsOf(insn, 0, f.nargs),
                 ![fa].v0_in = BothLive(insn.f_livein, insn.b_livein, v0)
                               /\ ~f.referenced_by_function_pointer]

\* ------------------------------------------------------------------------
\* r_dump_c / r_dump_instr: the emitted program as a sequence of tokens
\* ------------------------------------------------------------------------
Tok(k, i, a) == [k |-> k, i |-> i, a |-> a]

DmpRes(out, L, fail) == [out |-> out, labels |-> L, fail |-> fail]

\* opcodes that r_dump_instr has a lowering for (a printf of a statement)
LoweredIds == {"add", "addu", "addi", "addiu", "and", "andi", "lui", "lw", "lb", "lbu",
               "lh", "lhu", "lwl", "sw", "sb", "sh", "swl", "lwc1", "ldc1", "swc1", "sdc1",
               "mfc1", "mtc1", "cfc1", "ctc1", "mfhi", "mflo", "mult", "multu", "div", "divu",
               "move", "negu", "nor", "not", "or", "ori", "sll", "sllv", "slt", "slti",
               "sltiu", "sltu", "sra", "srav", "srl", "srlv", "subu", "xor", "xori",
               "tne", "teq", "tge", "tgeu", "tlt", "break"}
\* cases that print a comment only
CommentOnlyIds == {"nop", "lwr", "swr"}

\* immediate that the emitters print
DumpImm(rec) ==
    IF rec.patched THEN rec.patched_addr ELSE getProcessedImmediate(rec.instruction)

\* r_dump_jal: functions.find(imm) of an address that is no key gives the
\* end iterator; reading through it kills the run (crash) or yields whatever
\* Function the memory holds, and the call is printed
RECURSIVE r_dump_instr(_, _, _, _, _, _)
r_dump_jal(e, R, F, L, i, imm, crash) ==
    LET slot == r_dump_instr(e, R, F, L, i + 1, crash)
        ext == FindExtern(e, imm)
        ret == i_to_addr(i + 2)
        call == IF ext # "none" THEN Tok("call_extern", i, imm) ELSE Tok("call_intern", i, imm)
    IN IF slot.fail THEN slot
       ELSE IF ext = "none" /\ imm \notin DOMAIN F /\ crash
       THEN DmpRes(slot.out, slot.labels, TRUE)
       ELSE DmpRes(slot.out \o <<call, Tok("goto", i, ret)>>, slot.labels \cup {ret}, FALSE)

r_dump_cond_branch(e, R, F, L, i, crash) ==
    LET slot == r_dump_instr(e, R, F, L, i + 1, crash)
    IN IF slot.fail THEN slot
       ELSE DmpRes(<<Tok("if", i, 0)>> \o slot.out \o <<Tok("goto", i, DumpImm(R[i]))>>,
                   slot.labels, FALSE)

r_dump_cond_branch_likely(e, R, F, L, i, crash) ==
    LET br == r_dump_cond_branch(e, R, F, L, i, crash)
        target == i_to_addr(i + 2)
    IN IF br.fail THEN br
       ELSE DmpRes(br.out \o <<Tok("goto", i, target)>>, br.labels \cup {target}, FALSE)

r_dump_jr(e, R, F, L, i, crash) ==
    LET rec == R[i]
        slot == r_dump_instr(e, R, F, L, i + 1, crash)
    IN IF rec.jtbl_addr # 0
       THEN LET tg == JtTargets(e, rec.jtbl_addr, rec.num_cases)
                slot2 == r_dump_instr(e, R, F, L \cup tg, i + 1, crash)
            IN IF slot2.fail THEN slot2
               ELSE DmpRes(<<Tok("switch", i, rec.jtbl_addr)>> \o slot2.out
                               \o <<Tok("goto_dest", i, rec.jtbl_addr)>>,
                           slot2.labels, FALSE)
       ELSE IF RAB_INSTR_GET_rs(rec.instruction) # ra
       THEN DmpRes(<<Tok("unsupported_jr", i, 0)>>, L, FALSE)
       ELSE IF slot.fail THEN slot
       ELSE DmpRes(slot.out \o <<Tok("return", i, F[find_function(F, i_to_addr(i))].nret)>>,
                   slot.labels, FALSE)

r_dump_instr(e, R, F, L, i, crash) ==
    LET rec == R[i]
        id == rec.instruction.id
    IN CASE id \in CondBranchIds -> r_dump_cond_branch(e, R, F, L, i, crash)
         [] id \in LikelyBranchIds -> r_dump_cond_branch_likely(e, R, F, L, i, crash)
         [] id \in {"b", "j"} ->
              LET slot == r_dump_instr(e, R, F, L, i + 1, crash)
              IN IF slot.fail THEN slot
                 ELSE DmpRes(slot.out \o <<Tok("goto", i, DumpImm(rec))>>, slot.labels, FALSE)
         [] id = "jal" -> r_dump_jal(e, R, F, L, i, DumpImm(rec), crash)
         [] id = "jalr" ->
              LET slot == r_dump_instr(e, R, F, L, i + 1, crash)
                  ret == i_to_addr(i + 2)
              IN IF slot.fail THEN slot
                 ELSE DmpRes(<<Tok("fp_dest", i, 0)>> \o slot.out
                                 \o <<Tok("trampoline", i, 0), Tok("goto", i, ret)>>,
                             slot.labels \cup {ret}, FALSE)
         [] id = "jr" -> r_dump_jr(e, R, F, L, i, crash)
         [] id \in LoweredIds -> DmpRes(<<Tok("stmt", i, DumpImm(rec))>>, L, FALSE)
         [] id \in CommentOnlyIds -> DmpRes(<<Tok("comment", i, 0)>>, L, FALSE)
         [] OTHER -> DmpRes(<<Tok("unimplemented", i, 0)>>, L, FALSE)

\* the instructions of one function body, labels first (loop of r_dump_c)
RECURSIVE DumpBody(_, _, _, _, _, _, _, _)
DumpBody(e, R, F, L, out, i, end_i, crash) ==
    IF ~(i < end_i) THEN DmpRes(out, L, FALSE)
    ELSE IF i \notin DOMAIN R THEN DmpRes(out, L, TRUE)
    ELSE LET lab == IF i_to_addr(i) \in L THEN <<Tok("label", i, i_to_addr(i))>> ELSE <<>>
             d == r_dump_instr(e, R, F, L, i, crash)
         IN IF d.fail THEN DmpRes(out \o lab \o d.out, d.labels, TRUE)
            ELSE DumpBody(e, R, F, d.labels, out \o lab \o d.out, i + 1, end_i, crash)

\* is the function keyed fa emitted?  (entry reached by the forward pass)
IsUsedFunction(R, fa) == R[addr_to_i(fa)].f_livein # {}

\* the initial value that the body of a function declares for gp
GpDeclared(e) == IF e.conservative THEN 65536 ELSE 0

\* one iteration of the last loop of r_dump_c
r_dump_function(e, R, F, L, out, fa, crash) ==
    IF ~IsUsedFunction(R, fa) THEN DmpRes(out, L, FALSE)
    ELSE DumpBody(e, R, F, L,
                  out \o <<Tok("function", fa, F[fa].nret), Tok("gp_decl", fa, GpDeclared(e))>>,
                  addr_to_i(fa), addr_to_i(F[fa].end_addr), crash)

\* symbol_names_inv.at(name) finds the name
HasSymbol(e, name) == \E a \in DOMAIN e.symbol_names : e.symbol_names[a] = name

\* ------------------------------------------------------------------------
\* Input programs
\* ------------------------------------------------------------------------
data_vaddr == rodata_vaddr + 65536
ArgcAddr == data_vaddr + 256
ArgvAddr == data_vaddr + 260
ExtAddr == text_vaddr + 32768
gp_value_adj == 32752

A(i) == i_to_addr(i)

Pad(p) == [k \in 1..p |-> NOP]

Syms(S) == [a0_ \in {pr[1] : pr \in S} |-> (CHOOSE pr \in S : pr[1] = a0_)[2]]

ArgSyms == {<<ArgcAddr, "__Argc">>, <<ArgvAddr, "__Argv">>}

\* text, symbol table (address, name), addresses of the STT_FUNC text
\* symbols, main, _mcount, local and global GOT, .rodata and .data words
MkElf(text, syms, funcs, main, mcount, gotl, gotg, rodata, data) ==
    [text |-> text, symbol_names |-> Syms(syms), func_symbols |-> funcs,
     main_addr |-> main, mcount_addr |-> mcount,
     got_locals |-> gotl, got_globals |-> gotg, gp_value_adj |-> gp_value_adj,
     rodata |-> rodata, data |-> data, conservative |-> FALSE]

\* the same file recompiled with --conservative as the first argument
Conservative(e) == [e EXCEPT !.conservative = TRUE]

MainOnly(text, syms) ==
    MkElf(text, syms \cup {<<A(0), "main">>}, {A(0)}, A(0), 0, <<>>, <<>>, <<>>, <<>>)

\* main with two returns; `which` says which of them set $v0
ProgTwoReturns(p, which) ==
    MainOnly(<<Branch("beq", a0, zero, 4 + p), NOP>> \o Pad(p)
             \o <<IF which \in {"first", "both"} THEN IType("addiu", v0, zero, 1) ELSE NOP,
                  JR(ra), NOP, JR(ra),
                  IF which = "both" THEN IType("addiu", v0, zero, 2) ELSE NOP>>,
             ArgSyms)

\* f; main calls f, or an extern of the catalog, or f is named by a .data word
ProgCall(p, how) ==
    LET f == <<IType("addiu", v0, a0, 1), JR(ra), NOP>>
        callee == IF how = "extern" THEN ExtAddr ELSE A(0)
        main == Pad(p) \o <<JType("jal", callee), IType("addiu", a0, zero, 5), JR(ra), NOP>>
    IN MkElf(f \o main,
             ArgSyms \cup {<<A(0), "f">>, <<A(3), "main">>, <<ExtAddr, "memcpy">>},
             {A(0), A(3)}, A(3), 0, <<>>, <<>>, <<>>,
             IF how = "data" THEN <<A(0)>> ELSE <<>>)

\* the last word of .text is a call or a likely branch
ProgJumpLast(p, last) ==
    MainOnly(<<JR(ra), NOP>> \o Pad(p) \o <<last>>, ArgSyms)

JumpLastChoices == {JType("jal", A(0)), JALR(t0), Branch("beql", a0, zero, -1)}

\* LUI / MTC1 float constant
ProgFloat(p) ==
    MainOnly(<<IType("lui", at, zero, 16256), Ins("mtc1", zero, at, 0)>>
             \o Pad(p) \o <<JR(ra), NOP>>, ArgSyms)

\* GOT-local LW paired with an ADDIU; the page of got_locals[0] is .text
ProgGotLocal(p, imm) ==
    MkElf(<<NOP, JR(ra), NOP,
            IType("lw", t9, gp, -gp_value_adj), IType("addiu", a0, t9, imm)>>
          \o Pad(p) \o <<JR(ra), NOP>>,
          ArgSyms \cup {<<A(3), "main">>}, {A(3)}, A(3), 0,
          <<text_vaddr>>, <<>>, <<>>, <<>>)

\* GOT-global LW $t9 feeding a JALR
ProgGotCall(p) ==
    MkElf(<<IType("addiu", v0, a0, 1), JR(ra), NOP,
            IType("lw", t9, gp, -gp_value_adj)>> \o Pad(p)
          \o <<JALR(t9), NOP, JR(ra), NOP>>,
          ArgSyms \cup {<<A(3), "main">>, <<A(0), "f">>}, {A(0), A(3)}, A(3), 0,
          <<>>, <<A(0)>>, <<>>, <<>>)

\* an instruction at the entry of main, in a program that may lack __Argc
ProgFirst(p, first, syms) ==
    MainOnly(<<first>> \o Pad(p) \o <<JR(ra), NOP>>, syms)

FirstChoices == {RType("sub", v0, a0, a1), IType("lwr", v0, a0, 3), IType("addiu", v0, a0, 1)}

\* JR $t0 without a jump table, in the delay slot of B or on its own
ProgJr(p, slot) ==
    MainOnly(Pad(p) \o (IF slot THEN <<Branch("b", zero, zero, 1), JR(t0), JR(ra), NOP>>
                        ELSE <<JR(t0), NOP, JR(ra), NOP>>),
             ArgSyms)

\* g without a return in front of main; _mcount at mcount
TailPattern == <<IType("lw", t9, a0, 0), RType("move", a0, a1, zero), JALR(t9), NOP>>

ProgNoRet(p, body, name, mcount) ==
    LET n == Len(body) + p
    IN MkElf(body \o Pad(p) \o <<JR(ra), NOP>>,
             ArgSyms \cup {<<A(0), name>>, <<A(n), "main">>}, {A(0), A(n)}, A(n), mcount,
             <<>>, <<>>, <<>>, <<>>)

\* a counting loop
ProgLoop(p) ==
    MainOnly(<<IType("addiu", t0, zero, 3), IType("addiu", t0, t0, -1),
               Branch("bne", t0, zero, -2), NOP>> \o Pad(p)
             \o <<JR(ra), RType("addu", v0, t0, zero)>>, ArgSyms)

\* a PIC switch: the table is found through got_locals[0], its cases all
\* lead to the final `jr ra`; with SLTIU $at (by_sltiu) or with ANDI
SwitchHead(by_sltiu) ==
    IF by_sltiu
    THEN <<IType("sltiu", at, v0, 5), Branch("beqz", at, zero, 8), NOP,
           IType("lw", at, gp, -gp_value_adj), Shift("sll", t0, v0, 2)>>
    ELSE <<NOP, NOP, IType("lw", at, gp, -gp_value_adj), IType("andi", t0, v0, 3),
           Shift("sll", t0, t0, 2)>>

ProgSwitch(p, by_sltiu) ==
    LET text == Pad(p) \o SwitchHead(by_sltiu)
                \o <<RType("addu", at, at, t0), IType("lw", t0, at, 0),
                     RType("addu", t0, t0, gp), JR(t0), NOP, JR(ra), NOP>>
        cases == IF by_sltiu THEN 5 ELSE 4
    IN MkElf(text, ArgSyms \cup {<<A(0), "main">>}, {A(0)}, A(0), 0,
             <<rodata_vaddr>>, <<>>, [k \in 1..cases |-> A(10 + p) - gp_value], <<>>)

\* LUI followed by a user of its register: ADDIU or a load
LuiUserChoices == {IType("addiu", v0, v0, 4660), IType("lw", a0, v0, 4660)}

ProgLui(p, user) ==
    MainOnly(<<IType("lui", v0, zero, 64)>> \o Pad(p) \o <<user, JR(ra), NOP>>, ArgSyms)

\* main returns early or ends in a call of exit: the call and its delay slot
\* are the last two words of .text
ProgCallLast(p) ==
    MainOnly(<<Branch("beq", a0, zero, 3 + p), NOP>> \o Pad(p)
             \o <<JR(ra), NOP, JType("jal", ExtAddr), IType("addiu", a0, zero, 1)>>,
             ArgSyms \cup {<<ExtAddr, "exit">>})

\* main calls printf, by a JAL or through its GOT-global entry and $t9
ProgVararg(p, by_got) ==
    LET call == IF by_got THEN <<IType("lw", t9, gp, -gp_value_adj), JALR(t9)>>
                ELSE <<NOP, JType("jal", ExtAddr)>>
    IN MkElf(Pad(p) \o call \o <<NOP, JR(ra), NOP>>,
             ArgSyms \cup {<<A(0), "main">>, <<ExtAddr, "printf">>}, {A(0)}, A(0), 0,
             <<>>, IF by_got THEN <<ExtAddr>> ELSE <<>>, <<>>, <<>>)

\* f loads a GOT-local page into $v0 and returns; main starts with a user
\* of $v0
AcrossReturnUsers == {IType("addiu", a0, v0, 4), IType("lw", a0, v0, 4)}

ProgAcrossReturn(p, user) ==
    MkElf(<<IType("lw", v0, gp, -gp_value_adj)>> \o Pad(p)
          \o <<JR(ra), NOP, user, JR(ra), NOP>>,
          ArgSyms \cup {<<A(0), "f">>, <<A(3 + p), "main">>}, {A(0), A(3 + p)}, A(3 + p), 0,
          <<rodata_vaddr>>, <<>>, <<>>, <<>>)

\* GOT-local LW paired with a load or a store through the loaded page; the
\* page of got_locals[0] is .text
GotLocalUsers == {IType("lw", a0, t9, 4), IType("lhu", a0, t9, 4), IType("sb", a0, t9, 4)}

ProgGotLocalUser(p, user) ==
    MkElf(<<NOP, JR(ra), NOP, IType("lw", t9, gp, -gp_value_adj)>> \o Pad(p)
          \o <<user, JR(ra), NOP>>,
          ArgSyms \cup {<<A(3), "main">>}, {A(3)}, A(3), 0,
          <<text_vaddr>>, <<>>, <<>>, <<>>)

\* a GOT-local base in $t9 used by two loads with different immediates
ProgGotLocalTwo(p) ==
    MkElf(<<NOP, JR(ra), NOP, IType("lw", t9, gp, -gp_value_adj)>> \o Pad(p)
          \o <<IType("lw", a0, t9, 4), IType("lw", a1, t9, 8), JR(ra), NOP>>,
          ArgSyms \cup {<<A(3), "main">>}, {A(3)}, A(3), 0,
          <<text_vaddr>>, <<>>, <<>>, <<>>)

\* f is `op $a0, $a1; mf $v0; jr $ra` (op one of MULT, MULTU, DIV, DIVU, mf
\* one of MFHI, MFLO); main calls f with its own $a0, $a1 and returns f's $v0
HiLoChoices == {<<"mult", "mflo">>, <<"divu", "mfhi">>}

ProgHiLo(p, op, mf) ==
    LET f == <<RType(op, zero, a0, a1), RType(mf, v0, zero, zero), JR(ra), NOP>>
        main == Pad(p) \o <<JType("jal", A(0)), NOP, JR(ra), NOP>>
    IN MkElf(f \o main,
             ArgSyms \cup {<<A(0), "f">>, <<A(4), "main">>},
             {A(0), A(4)}, A(4), 0, <<>>, <<>>, <<>>, <<>>)

\* as ProgGotCall, with the function in .text named like an extern of the
\* catalog
ProgShadow(p) ==
    MkElf(<<IType("addiu", v0, a0, 1), JR(ra), NOP,
            IType("lw", t9, gp, -gp_value_adj)>> \o Pad(p)
          \o <<JALR(t9), NOP, JR(ra), NOP>>,
          ArgSyms \cup {<<A(3), "main">>, <<A(0), "exit">>}, {A(0), A(3)}, A(3), 0,
          <<>>, <<A(0)>>, <<>>, <<>>)

\* main loads the address of a GOT-global symbol (main itself) into $a0
ProgGotData(p) ==
    MkElf(Pad(p) \o <<IType("lw", a0, gp, -gp_value_adj), JR(ra), NOP>>,
          ArgSyms \cup {<<A(0), "main">>}, {A(0)}, A(0), 0,
          <<>>, <<A(0)>>, <<>>, <<>>)

\* LUI $at / MTC1 $at with one instruction in between: a LUI of another
\* register, or an I-type or R-type instruction that writes $at
FloatMidChoices == {IType("lui", v0, zero, 1), IType("addiu", at, at, 1),
                    RType("subu", at, at, v0)}

ProgFloatMid(p, mid) ==
    MainOnly(<<IType("lui", at, zero, 16256), mid>> \o Pad(p)
             \o <<Ins("mtc1", zero, at, 0), JR(ra), NOP>>, ArgSyms)

\* main calls an extern of the catalog by a JAL
ExternChoices == {"strtoll", "sqrt"}

ProgExtern(p, name) ==
    MkElf(Pad(p) \o <<JType("jal", ExtAddr), IType("addiu", a0, zero, 5), JR(ra), NOP>>,
          ArgSyms \cup {<<A(0), "main">>, <<ExtAddr, name>>}, {A(0)}, A(0), 0,
          <<>>, <<>>, <<>>, <<>>)

Inputs ==
    UNION {
      {ProgTwoReturns(p, w) : w \in {"first", "both", "none"}}
      \cup {ProgCall(p, h) : h \in {"intern", "extern", "data"}}
      \cup {ProgJumpLast(p, l) : l \in JumpLastChoices}
      \cup {ProgFloat(p), ProgGotCall(p), ProgLoop(p), ProgCallLast(p)}
      \cup {ProgGotLocal(p, imm) : imm \in {0, 1}}
      \cup {ProgFirst(p, f, ArgSyms) : f \in FirstChoices}
      \cup {ProgFirst(p, IType("addiu", v0, a0, 1), {})}
      \cup {ProgJr(p, s) : s \in BOOLEAN}
      \cup {ProgSwitch(p, b) : b \in BOOLEAN}
      \cup {ProgVararg(p, b) : b \in BOOLEAN}
      \cup {ProgExtern(p, x) : x \in ExternChoices}
      \cup {ProgFloatMid(p, m) : m \in FloatMidChoices}
      \cup {ProgGotData(p), Conservative(ProgGotData(p)), Conservative(ProgGotLocal(p, 0))}
      \cup {ProgGotLocalUser(p, u) : u \in GotLocalUsers}
      \cup {ProgGotLocalTwo(p), ProgShadow(p)}
      \cup {ProgHiLo(p, c[1], c[2]) : c \in HiLoChoices}
      \cup {ProgAcrossReturn(p, u) : u \in AcrossReturnUsers}
      \cup {ProgLui(p, u) : u \in LuiUserChoices}
      \cup {ProgNoRet(p, b, nm, m) : b \in {<<NOP>>, TailPattern},
                                     nm \in {"g", "__start"}, m \in {0, A(0)}}
      : p \in 0..MaxPad }

\* what an out-of-bounds read of rinsns can return
GarbageInstructions == {NOP, Shift("sll", t0, t0, 2)}

\* ------------------------------------------------------------------------
\* The pipeline of main() as a state machine
\* ------------------------------------------------------------------------
VARIABLES elf, pc, idx, rinsns, functions, label_addresses, li_function_pointers,
          data_function_pointers, q, out, exit_status

vars == <<elf, pc, idx, rinsns, functions, label_addresses, li_function_pointers,
          data_function_pointers, q, out, exit_status>>

NotExited == -1
EXIT_OK == 0
EXIT_ABORT == 134

\* functions registered by the ELF parser for the STT_FUNC text symbols
SymbolFunctions(e) ==
    [a \in {x \in e.func_symbols : InText(e, x)} |-> NewFunction]

\* label_addresses after the parser: the GOT-global text functions
SymbolLabels(e) ==
    {e.got_globals[k] : k \in DOMAIN e.got_globals} \cap DOMAIN e.symbol_names

\* state after parse_elf and r_disassemble, for an input drawn from S
InitFrom(S) ==
    /\ elf \in S
    /\ pc = "inspect_rodata"
    /\ idx = 0
    /\ rinsns = r_disassemble(elf.text)
    /\ functions = SymbolFunctions(elf)
    /\ label_addresses = SymbolLabels(elf)
    /\ li_function_pointers = {}
    /\ data_function_pointers = <<>>
    /\ q = <<>>
    /\ out = <<>>
    /\ exit_status = NotExited

Init == InitFrom(Inputs)

\* an assert fired, an exception escaped or a wild access killed the process;
\* pc keeps the stage it died in
Die ==
    /\ pc' = pc
    /\ exit_status' = EXIT_ABORT

\* the process is alive and about to run stage p
At(p) == exit_status = NotExited /\ pc = p

Goto(next_pc) ==
    /\ pc' = next_pc
    /\ exit_status' = exit_status

Inspect(words, next_pc) ==
    \E r \in {inspect_data_function_pointers(elf, words, data_function_pointers,
                                            label_addresses, functions)}
    :  /\ data_function_pointers' = r.dfp
       /\ label_addresses' = r.labels
       /\ functions' = r.f
       /\ Goto(next_pc)
       /\ UNCHANGED <<elf, idx, rinsns, li_function_pointers, q, out>>

InspectRodata == At("inspect_rodata") /\ Inspect(elf.rodata, "inspect_data")

InspectData == At("inspect_data") /\ Inspect(elf.data, "pass1")

\* one iteration of the loop of r_pass1 (idx runs over the sentinel too)
Pass1Step ==
    /\ At("pass1")
    /\ \E g \in GarbageInstructions, crash \in BOOLEAN :
         \E r \in {r_pass1_iter(elf, rinsns, functions, label_addresses, idx, g, crash)}
         :  /\ rinsns' = r.r
            /\ functions' = r.f
            /\ label_addresses' = r.labels
            /\ IF r.fail THEN Die /\ idx' = idx
               ELSE IF idx + 1 \in DOMAIN rinsns THEN Goto("pass1") /\ idx' = idx + 1
               ELSE Goto("pass2_returns") /\ idx' = 0
    /\ UNCHANGED <<elf, li_function_pointers, data_function_pointers, q, out>>

\* one iteration of the first loop of r_pass2
Pass2Returns ==
    /\ At("pass2_returns")
    /\ \E r \in {r_pass2_returns(elf, rinsns, functions, li_function_pointers, idx)}
       :  /\ functions' = r.f
          /\ li_function_pointers' = r.li
          /\ IF r.fail THEN Die /\ idx' = idx
             ELSE IF idx + 1 \in DOMAIN rinsns THEN Goto("pass2_returns") /\ idx' = idx + 1
             ELSE Goto("pass2_functions") /\ idx' = 1
    /\ UNCHANGED <<elf, rinsns, label_addresses, data_function_pointers, q, out>>

\* the keys of functions in map order; idx is the iterator position
FunctionKeys == SortedAddrs(DOMAIN functions)

\* one iteration of the second loop of r_pass2
Pass2Func ==
    /\ At("pass2_functions")
    /\ IF idx > Len(FunctionKeys)
       THEN /\ Goto("pass3") /\ idx' = 0
            /\ UNCHANGED <<rinsns, functions>>
       ELSE \E r \in {r_pass2_function(elf, rinsns, functions, FunctionKeys[idx])}
            :  /\ rinsns' = r.r
               /\ functions' = r.f
               /\ IF r.fail THEN Die /\ idx' = idx
                  ELSE Goto("pass2_functions") /\ idx' = idx + 1
    /\ UNCHANGED <<elf, label_addresses, li_function_pointers, data_function_pointers, q, out>>

\* one iteration of the loop of r_pass3
Pass3Step ==
    /\ At("pass3")
    /\ \E crash \in BOOLEAN :
         \E r \in {r_pass3_iter(elf, rinsns, functions, idx, crash)}
         :  /\ rinsns' = r.r
            /\ IF r.fail THEN Die /\ idx' = idx
               ELSE IF idx + 1 \in DOMAIN rinsns THEN Goto("pass3") /\ idx' = idx + 1
               ELSE Goto("pass4_seed") /\ idx' = 0
    /\ UNCHANGED <<elf, functions, label_addresses, li_function_pointers,
                   data_function_pointers, q, out>>

Seed(r, next_pc) ==
    /\ rinsns' = r.r
    /\ q' = r.q
    /\ IF r.fail THEN Die ELSE Goto(next_pc)
    /\ UNCHANGED <<elf, idx, functions, label_addresses, li_function_pointers,
                   data_function_pointers, out>>

\* a worklist step, or the end of the while loop when q is empty
Pop(r, next_pc) ==
    IF q = <<>>
    THEN /\ Goto(next_pc)
         /\ UNCHANGED <<elf, idx, rinsns, functions, label_addresses, li_function_pointers,
                        data_function_pointers, q, out>>
    ELSE Seed(r, pc)

Pass4Seed ==
    /\ At("pass4_seed")
    /\ Seed(r_pass4_seed(elf, rinsns, data_function_pointers, li_function_pointers), "pass4")

Pass4Pop ==
    /\ At("pass4")
    /\ \E crash \in BOOLEAN : Pop(r_pass4_pop(elf, rinsns, q, crash), "pass5_seed")

Pass5Seed ==
    /\ At("pass5_seed")
    /\ Seed(r_pass5_seed(elf, rinsns, functions, data_function_pointers,
                         li_function_pointers), "pass5")

Pass5Pop ==
    /\ At("pass5")
    /\ \E crash \in BOOLEAN : Pop(r_pass5_pop(elf, rinsns, q, crash), "pass6")

\* one iteration of the loop of r_pass6
Pass6Step ==
    /\ At("pass6")
    /\ IF idx < Len(FunctionKeys)
       THEN IF addr_to_i(FunctionKeys[idx + 1]) \in DOMAIN rinsns
            THEN /\ functions' = r_pass6_function(rinsns, functions, FunctionKeys[idx + 1])
                 /\ idx' = idx + 1
                 /\ Goto("pass6")
            ELSE Die /\ UNCHANGED <<functions, idx>>
       ELSE /\ Goto("dump_preamble") /\ idx' = 0
            /\ UNCHANGED functions
    /\ UNCHANGED <<elf, rinsns, label_addresses, li_function_pointers,
                   data_function_pointers, q, out>>

\* r_dump_c up to the loop over the functions: header, section images,
\* prototypes, trampoline, run(); the lookups of __Argc / __Argv throw when
\* the symbol is missing, after the text before them has been printed
DumpPreamble ==
    /\ At("dump_preamble")
    /\ IF HasSymbol(elf, "__Argc") /\ HasSymbol(elf, "__Argv")
       THEN /\ out' = out \o <<Tok("header", 0, 0), Tok("run", 0, 0)>>
            /\ functions' = MapTouch(functions, elf.main_addr)
            /\ Goto("dump_functions")
       ELSE /\ out' = out \o <<Tok("header", 0, 0)>>
            /\ functions' = functions
            /\ Die
    /\ idx' = 0
    /\ UNCHANGED <<elf, rinsns, label_addresses, li_function_pointers,
                   data_function_pointers, q>>

\* one iteration of the last loop of r_dump_c
DumpFunction ==
    /\ At("dump_functions")
    /\ idx < Len(FunctionKeys)
    /\ \E crash \in BOOLEAN :
         \E r \in {r_dump_function(elf, rinsns, functions, label_addresses, out,
                                  FunctionKeys[idx + 1], crash)}
         :  /\ out' = r.out
            /\ label_addresses' = r.labels
            /\ IF r.fail THEN Die /\ idx' = idx
               ELSE Goto("dump_functions") /\ idx' = idx + 1
    /\ UNCHANGED <<elf, rinsns, functions, li_function_pointers, data_function_pointers, q>>

\* r_dump_c returns; main frees the file image and returns 0
Finish ==
    /\ At("dump_functions")
    /\ ~(idx < Len(FunctionKeys))
    /\ pc' = "done"
    /\ exit_status' = EXIT_OK
    /\ UNCHANGED <<elf, idx, rinsns, functions, label_addresses, li_function_pointers,
                   data_function_pointers, q, out>>

Next ==
    \/ InspectRodata
    \/ InspectData
    \/ Pass1Step
    \/ Pass2Returns
    \/ Pass2Func
    \/ Pass3Step
    \/ Pass4Seed
    \/ Pass4Pop
    \/ Pass5Seed
    \/ Pass5Pop
    \/ Pass6Step
    \/ DumpPreamble
    \/ DumpFunction
    \/ Finish

Spec == Init /\ [][Next]_vars

\* the inputs whose worklists see joins, calls and a loop
WorklistInputs ==
    UNION { {ProgTwoReturns(p, "first"), ProgCall(p, "intern"), ProgLoop(p)} : p \in 0..MaxPad }

\* the while loops of r_pass4 and r_pass5 keep running while the process
\* is alive: a worklist step that can be taken is taken
FairSpec ==
    InitFrom(WorklistInputs) /\ [][Next]_vars /\ WF_vars(Pass4Pop) /\ WF_vars(Pass5Pop)

\* ------------------------------------------------------------------------
\* Properties
\* ------------------------------------------------------------------------
AfterPass1 == {"pass2_returns", "pass2_functions", "pass3", "pass4_seed", "pass4",
               "pass5_seed", "pass5", "pass6", "dump_preamble", "dump_functions", "done"}
AfterPass3 == {"pass4_seed", "pass4", "pass5_seed", "pass5", "pass6", "dump_preamble",
               "dump_functions", "done"}
AfterPass6 == {"dump_preamble", "dump_functions", "done"}

\* indices of the instructions decoded from .text (the sentinel left out)
TextIndices == {i \in DOMAIN rinsns : i < Len(elf.text)}

EdgeIndices(i) ==
    {rinsns[i].successors[k].i : k \in DOMAIN rinsns[i].successors}
    \cup {rinsns[i].predecessors[k].i : k \in DOMAIN rinsns[i].predecessors}

\* C1: once r_pass3 has run, every edge index stored in a successors or
\* predecessors list is an index of rinsns (0 <= j < rinsns.size())
C1_EdgesInRange ==
    pc \in AfterPass3 => \A i \in DOMAIN rinsns : EdgeIndices(i) \subseteq DOMAIN rinsns

\* C2: once r_pass1 has run, the links are mutual: whenever an instruction
\* of .text names a partner o in linked_insn, o is an instruction and names
\* it back
C2_LinksMutual ==
    pc \in AfterPass1 =>
        \A s \in TextIndices :
            rinsns[s].linked_insn # -1 =>
                /\ rinsns[s].linked_insn \in DOMAIN rinsns
                /\ rinsns[rinsns[s].linked_insn].linked_insn = s

MasksOf(rec) == <<rec.f_livein, rec.f_liveout, rec.b_liveout, rec.b_livein>>

MasksGrow(old, new) == \A m \in 1..4 : MasksOf(old)[m] \subseteq MasksOf(new)[m]

\* a worklist step leaves every mask of every instruction at least as large
MasksGrowStep ==
    pc \in {"pass4", "pass5"} =>
        \A i \in DOMAIN rinsns : MasksGrow(rinsns[i], rinsns'[i])

\* C3: a worklist step of r_pass4 or r_pass5 only adds bits: after the step
\* the four masks of every instruction contain what they held before it
C3_MasksOnlyGrow == [][MasksGrowStep]_vars

\* C3 witness: both worklists have run and some instruction holds bits in
\* all four masks beyond the reachable bit
C3_Witness ==
    /\ pc = "pass6"
    /\ \E i \in TextIndices : \A m \in 1..4 : MasksOf(rinsns[i])[m] \ ReachBit # {}

\* the addresses a worklist step appended to q (the popped entry was the last)
Pushed == SubSeq(q', Len(q), Len(q'))

\* a forward step pushes only targets whose f_livein changed
ForwardPushStep ==
    (pc = "pass4" /\ q # <<>>) =>
        \A k \in DOMAIN Pushed :
            rinsns[addr_to_i(Pushed[k])].f_livein # rinsns'[addr_to_i(Pushed[k])].f_livein

\* a backward step pushes only targets whose b_liveout changed
BackwardPushStep ==
    (pc = "pass5" /\ q # <<>>) =>
        \A k \in DOMAIN Pushed :
            rinsns[addr_to_i(Pushed[k])].b_liveout # rinsns'[addr_to_i(Pushed[k])].b_liveout

\* C4: each worklist drains (or the process has died on the way), and a step
\* pushes an address only if the mask it merged into strictly grew
C4_WorklistsDrain ==
    /\ (pc = "pass4") ~> (pc = "pass5_seed" \/ exit_status # NotExited)
    /\ (pc = "pass5") ~> (pc = "pass6" \/ exit_status # NotExited)
    /\ [][ForwardPushStep]_vars
    /\ [][BackwardPushStep]_vars

\* C4 witness: the backward worklist has drained in a run whose forward
\* pass went round a loop (a back edge: an instruction with a predecessor
\* at a higher index, both reached)
C4_Witness ==
    /\ pc = "pass6" /\ q = <<>> /\ exit_status = NotExited
    /\ \E i \in TextIndices :
         /\ rinsns[i].f_liveout # {} /\ rinsns[i].b_livein # {}
         /\ \E k \in DOMAIN rinsns[i].predecessors : rinsns[i].predecessors[k].i > i

HasEdgeTo(rec, j) == \E k \in DOMAIN rec.successors : rec.successors[k].i = j

\* C5: once r_pass3 has run, every instruction whose flag
\* no_following_successor is false has an edge to the next instruction
C5_FallthroughEdge ==
    pc \in AfterPass3 =>
        \A i \in DOMAIN rinsns :
            ~rinsns[i].no_following_successor => HasEdgeTo(rinsns[i], i + 1)

\* C5 witness: the delay slot of a non-likely conditional branch is not
\* flagged and falls through
C5_Witness ==
    /\ pc \in AfterPass3
    /\ \E i \in TextIndices :
         /\ rinsns[i].instruction.id \in CondBranchIds
         /\ ~rinsns[i + 1].no_following_successor
         /\ HasEdgeTo(rinsns[i + 1], i + 2)

ReturnHasV0(ret) ==
    BothLive(rinsns[addr_to_i(ret)].f_liveout, rinsns[addr_to_i(ret)].b_liveout, v0)

ReturnHasV1(ret) ==
    BothLive(rinsns[addr_to_i(ret)].f_liveout, rinsns[addr_to_i(ret)].b_liveout, v1)

ReturnsSet(fa) == {functions[fa].returns[k] : k \in DOMAIN functions[fa].returns}

\* C6 as claimed: once r_pass6 has run, every return of a function with
\* nret = 1 has $v0 in its forward and in its backward mask
C6_EveryReturnHasV0 ==
    pc \in AfterPass6 =>
        \A fa \in DOMAIN functions :
            functions[fa].nret = 1 => \A ret \in ReturnsSet(fa) : ReturnHasV0(ret)

\* C6 as amended: once r_pass6 has run, nret = 1 exactly when no return has
\* $v1 in both masks and at least one return has $v0 in both masks
C6_SomeReturnHasV0 ==
    pc \in AfterPass6 =>
        \A fa \in DOMAIN functions :
            functions[fa].nret = 1 <=>
                /\ \E ret \in ReturnsSet(fa) : ReturnHasV0(ret)
                /\ \A ret \in ReturnsSet(fa) : ~ReturnHasV1(ret)

\* C6 witness: a function with nret = 1 and two returns, one with $v0 in
\* both masks and one without
C6_Witness ==
    /\ pc \in AfterPass6
    /\ \E fa \in DOMAIN functions :
         /\ functions[fa].nret = 1
         /\ \E r1, r2 \in ReturnsSet(fa) : ReturnHasV0(r1) /\ ~ReturnHasV0(r2)

\* C7: every key of functions lies in .text and is a multiple of 4
C7_FunctionKeysAligned ==
    \A a \in DOMAIN functions : InText(elf, a) /\ a % 4 = 0

OutKinds == {out[k].k : k \in DOMAIN out}

\* C8: a run that exits with status 0 has printed no UNIMPLEMENTED /
\* UNSUPPORTED line for an instruction, and a run that dies has printed nothing
C8_ErrorsAreFatal ==
    /\ exit_status = EXIT_OK => OutKinds \cap {"unimplemented", "unsupported_jr"} = {}
    /\ exit_status = EXIT_ABORT => out = <<>>

\* a JR through a register other than $ra for which r_pass1 found no table
IsUnsupportedJr(rec) ==
    /\ rec.instruction.id = "jr"
    /\ RAB_INSTR_GET_rs(rec.instruction) # ra
    /\ rec.jtbl_addr = 0

\* C9: when .text holds a JR through a register other than $ra without a
\* jump table, the run prints nothing and does not exit with status 0
C9_UnsupportedJrIsFatal ==
    (pc \in AfterPass1 /\ \E i \in TextIndices : IsUnsupportedJr(rinsns[i])) =>
        (out = <<>> /\ exit_status # EXIT_OK)

SpecialNames == {"__start", "xmalloc", "xfree"}

\* r_pass2 is about to look at a function that has no return and none of
\* the special names
AtNoReturnFunction ==
    /\ At("pass2_functions")
    /\ idx \in DOMAIN FunctionKeys
    /\ functions[FunctionKeys[idx]].returns = <<>>
    /\ SymName(elf, FunctionKeys[idx]) \notin SpecialNames

EntryIsTailPattern == IsTailPattern(rinsns, addr_to_i(FunctionKeys[idx]))

EntryAboveMcount == ULT(elf.mcount_addr, FunctionKeys[idx])

NoReturnAbortsAsClaimed ==
    (AtNoReturnFunction /\ ~(EntryAboveMcount /\ EntryIsTailPattern))
        => exit_status' = EXIT_ABORT

\* C10 as claimed: r_pass2 aborts on every function without a return that
\* has no special name, unless it lies above mcount_addr and begins with the
\* tail pattern
C10_NoReturnAborts == [][NoReturnAbortsAsClaimed]_vars

NoReturnAbortsAmended ==
    AtNoReturnFunction =>
        (exit_status' = EXIT_ABORT <=> (EntryAboveMcount /\ ~EntryIsTailPattern))

\* C10 as amended: on a function without a return and without a special name
\* r_pass2 aborts exactly when the entry lies above mcount_addr and does not
\* begin with the tail pattern; at or below mcount_addr it never aborts
C10_NoReturnAbortsAboveMcount == [][NoReturnAbortsAmended]_vars

\* C10 witness: r_pass2 has died on a function without a return above
\* mcount_addr
C10_Witness ==
    /\ pc = "pass2_functions" /\ exit_status = EXIT_ABORT
    /\ idx \in DOMAIN FunctionKeys
    /\ functions[FunctionKeys[idx]].returns = <<>>
    /\ EntryAboveMcount /\ ~EntryIsTailPattern

\* the instruction decoded from word k of .text, before any rewrite
OrigIns(k) == elf.text[k + 1]

\* the nearest index below i whose original instruction satisfies Is
NearestBefore(i, Is(_)) ==
    IF \E k \in 0..(i - 1) : Is(OrigIns(k))
    THEN CHOOSE k \in 0..(i - 1) :
           Is(OrigIns(k)) /\ \A m \in (k + 1)..(i - 1) : ~Is(OrigIns(m))
    ELSE -1

IsSll(ins) == ins.id = "sll"
IsSltiuAt(ins) == ins.id = "sltiu" /\ RAB_INSTR_GET_rt(ins) = at
IsAndi(ins) == ins.id = "andi"

\* the register the SLL of the pattern shifts (its source operand rt)
SwitchIndexSource(i) == RAB_INSTR_GET_rt(OrigIns(NearestBefore(i, IsSll)))

\* the SLTIU immediate when an SLTIU writing $at precedes, else ANDI + 1
SwitchCases(i) ==
    IF NearestBefore(i, IsSltiuAt) # -1
    THEN getProcessedImmediate(OrigIns(NearestBefore(i, IsSltiuAt)))
    ELSE getProcessedImmediate(OrigIns(NearestBefore(i, IsAndi))) + 1

\* C11: once r_pass1 has run, every JR recognised as a jump-table dispatch
\* records as index_reg the register the SLL of the pattern shifts, and as
\* num_cases the SLTIU immediate, or the ANDI immediate + 1
C11_JumpTableRecorded ==
    pc \in AfterPass1 =>
        \A i \in TextIndices :
            rinsns[i].jtbl_addr # 0 =>
                /\ rinsns[i].index_reg = SwitchIndexSource(i)
                /\ rinsns[i].num_cases = SwitchCases(i)

\* the recorded num_cases alone is as C11 states
C11_CasesRecorded ==
    pc \in AfterPass1 =>
        \A i \in TextIndices :
            rinsns[i].jtbl_addr # 0 => rinsns[i].num_cases = SwitchCases(i)

\* o is an ADDIU or a load/store of .text whose base register was last
\* written, within MAX_LOOKBACK instructions, by the LUI at s
LuiUserIds == {"addiu"} \cup MemOpIds

IsLuiPair(s, o) ==
    /\ o \in 0..(Len(elf.text) - 1)
    /\ OrigIns(o).id \in LuiUserIds
    /\ RAB_INSTR_GET_rs(OrigIns(o)) \notin {zero, gp}
    /\ s = NearestBefore(o, LAMBDA ins : get_dest_reg(ins) = RAB_INSTR_GET_rs(OrigIns(o)))
    /\ s # -1 /\ o - s <= MAX_LOOKBACK
    /\ OrigIns(s).id = "lui"

\* (LUI immediate << 16) + user immediate
LuiPairAddress(s, o) ==
    Shl16(getProcessedImmediate(OrigIns(s))) + getProcessedImmediate(OrigIns(o))

\* C12 as claimed: once r_pass1 has run, the combined address of every
\* LUI / user pair is in label_addresses and both stay unpatched
C12_LuiPairLabelled ==
    pc \in AfterPass1 =>
        \A s, o \in TextIndices :
            IsLuiPair(s, o) =>
                /\ ~rinsns[s].patched /\ ~rinsns[o].patched
                /\ LuiPairAddress(s, o) \in label_addresses

LuiPairUntouched ==
    \A s \in TextIndices :
        (At("pass1") /\ IsLuiPair(s, idx)) =>
            /\ label_addresses' = label_addresses
            /\ rinsns'[s] = rinsns[s]
            /\ rinsns'[idx] = rinsns[idx]
            /\ ~rinsns'[idx].patched /\ rinsns'[idx].linked_insn = -1

\* C12 as amended: the r_pass1 step of a user paired with a LUI changes
\* neither the LUI nor the user (both stay unpatched, the user unlinked)
\* and inserts nothing into label_addresses
C12_LuiPairUntouched == [][LuiPairUntouched]_vars

\* C12 witness: r_pass1 is over, a LUI / ADDIU pair exists, and its combined
\* address 0x00401234 is not a label
C12_Witness ==
    /\ pc \in AfterPass1
    /\ \E s, o \in TextIndices :
         /\ IsLuiPair(s, o) /\ OrigIns(o).id = "addiu"
         /\ LuiPairAddress(s, o) = 4198964
         /\ LuiPairAddress(s, o) \notin label_addresses
         /\ ~rinsns[s].patched /\ ~rinsns[o].patched

\* ------------------------------------------------------------------------
\* C13: JALR $t9 fed by a GOT-global load
\* ------------------------------------------------------------------------
WritesT9OrReturns(ins) ==
    get_dest_reg(ins) = t9 \/ (ins.id = "jr" /\ RAB_INSTR_GET_rs(ins) = ra)

\* the GOT-global slot read by `lw $t9, imm($gp)`, -1 when it is not one
GotGlobalSlot(ins) ==
    LET got_entry == UDiv4(getProcessedImmediate(ins) + elf.gp_value_adj)
    IN IF /\ ins.id = "lw" /\ RAB_INSTR_GET_rs(ins) = gp
          /\ got_entry >= Len(elf.got_locals)
          /\ got_entry - Len(elf.got_locals) < Len(elf.got_globals)
       THEN got_entry - Len(elf.got_locals) + 1
       ELSE -1

\* s is the GOT-global LW that feeds the JALR $t9 at o
IsGotCall(s, o) ==
    /\ OrigIns(o).id = "jalr" /\ RAB_INSTR_GET_rs(OrigIns(o)) = t9
    /\ s = NearestBefore(o, WritesT9OrReturns)
    /\ s # -1 /\ o - s <= MAX_LOOKBACK
    /\ get_dest_reg(OrigIns(s)) = t9
    /\ GotGlobalSlot(OrigIns(s)) # -1

GotCallAddress(s) == elf.got_globals[GotGlobalSlot(OrigIns(s))]

BodyOf(n) ==
    {m \in 1..Len(out) :
        \A x \in (IF m < n THEN (m + 1)..n ELSE (n + 1)..m) : out[x].k # "function"}

GotoHasLabel(n) ==
    \E m \in BodyOf(n) : out[m].k = "label" /\ out[m].a = out[n].a

\* C14: once the program is emitted, every `goto L<x>` of a function body
\* has a label `L<x>:` in the same function body
C14_GotosHaveLabels ==
    pc = "done" =>
        \A n \in 1..Len(out) : out[n].k = "goto" => GotoHasLabel(n)

\* ------------------------------------------------------------------------
\* C15: calls of vararg externs in the backward pass
\* ------------------------------------------------------------------------
AfterPass5 == {"pass6", "dump_preamble", "dump_functions", "done"}

\* the instruction at i is a reachable JAL (original or rewritten from
\* JALR $t9) to an extern whose catalog entry has FLAG_VARARG
IsVarargCall(i) ==
    /\ rinsns[i].instruction.id = "jal"
    /\ rinsns[i].f_livein # {}
    /\ FindExtern(elf, JumpTarget(rinsns[i])) # "none"
    /\ (extern_functions[FindExtern(elf, JumpTarget(rinsns[i]))].flags \div FLAG_VARARG) % 2 = 1

VarargLive(i) == RegsMask({a0, a1, a2, a3, sp}) \subseteq rinsns[i + 1].b_liveout

\* C15: when the backward pass is over (or the run has ended), $a0..$a3 and
\* $sp are in b_liveout of the delay slot of every reachable JAL to a vararg
\* extern
C15_VarargArgsLive ==
    (pc \in AfterPass5 \/ exit_status # NotExited) =>
        \A i \in TextIndices : IsVarargCall(i) => VarargLive(i)

\* the same for the runs that get past r_pass5
C15_VarargArgsLiveIfDone ==
    pc \in AfterPass5 => \A i \in TextIndices : IsVarargCall(i) => VarargLive(i)

\* ------------------------------------------------------------------------
\* C16: the HI/LO scan and a previous `jr $ra`
\* ------------------------------------------------------------------------
\* r_pass1 starts r_link_with_lui at o (for the register rs of o)
StartsLuiScan(o) ==
    LET ins == rinsns[o].instruction
    IN \/ ins.id \in MemOpIds /\ RAB_INSTR_GET_rs(ins) # gp
       \/ /\ ins.id \in {"addiu", "ori"}
          /\ RAB_INSTR_GET_rs(ins) # zero /\ RAB_INSTR_GET_rd(ins) # gp

\* the instruction at k ends a scan for reg: a LUI of reg or a producer of reg
EndsLuiScan(k, reg) ==
    LET ins == rinsns[k].instruction
    IN \/ ins.id = "lui" /\ RAB_INSTR_GET_rt(ins) = reg
       \/ ins.id \in LuiProducerIds /\ get_dest_reg(ins) = reg

\* the scan from o meets a JR $ra at s, two or more instructions before o
MeetsJrRa(s, o) ==
    /\ StartsLuiScan(o)
    /\ s \in TextIndices /\ o - s >= 2 /\ o - s <= MAX_LOOKBACK
    /\ rinsns[s].instruction.id = "jr" /\ RAB_INSTR_GET_rs(rinsns[s].instruction) = ra
    /\ \A k \in (s + 1)..(o - 1) :
         /\ ~EndsLuiScan(k, RAB_INSTR_GET_rs(rinsns[o].instruction))
         /\ rinsns[k].instruction.id # "jr"

NoPairAcrossReturn ==
    \A s \in TextIndices :
        (At("pass1") /\ MeetsJrRa(s, idx)) =>
            /\ rinsns'[idx].linked_insn = -1
            /\ \A k \in 0..(s - 1) : rinsns'[k] = rinsns[k]

\* C16: the r_pass1 step of a user whose HI/LO scan meets a JR $ra two or
\* more instructions back pairs it with nothing: the user stays unlinked and
\* no instruction before the JR $ra changes
C16_NoPairAcrossReturn == [][NoPairAcrossReturn]_vars

\* ------------------------------------------------------------------------
\* C17: GOT-local pairs and the function map
\* ------------------------------------------------------------------------
\* this r_pass1 step pairs the user at idx with a GOT-local LW via $gp
PairsGotLocal ==
    /\ At("pass1") /\ idx \in TextIndices /\ StartsLuiScan(idx)
    /\ rinsns[idx].linked_insn = -1 /\ rinsns'[idx].linked_insn # -1
    /\ LET s == rinsns'[idx].linked_insn
       IN /\ s \in 0..(idx - 1)
          /\ rinsns[s].instruction.id = "lw" /\ RAB_INSTR_GET_rs(rinsns[s].instruction) = gp
          /\ rinsns'[s].instruction.id = "ori"
          /\ rinsns'[idx].linked_value =
               elf.got_locals[UDiv4(getProcessedImmediate(rinsns[s].instruction)
                                    + elf.gp_value_adj) + 1]
               + getProcessedImmediate(rinsns[idx].instruction)

GotLocalPairInText == PairsGotLocal /\ InText(elf, rinsns'[idx].linked_value)

EveryGotLocalUserRegisters ==
    GotLocalPairInText => rinsns'[idx].linked_value \in DOMAIN functions'

\* C17: every pairing of a user with a GOT-local LW whose resolved address
\* lies in .text makes that address a key of functions
C17_EveryUserRegisters == [][EveryGotLocalUserRegisters]_vars

OnlyAddiuRegisters ==
    GotLocalPairInText =>
        IF rinsns[idx].instruction.id = "addiu"
        THEN rinsns'[idx].linked_value \in DOMAIN functions'
        ELSE functions' = functions

\* C17 as amended: the pairing registers the resolved .text address as a
\* key of functions when the user is an ADDIU; for a load or store user it
\* leaves functions as it was
C17_OnlyAddiuRegisters == [][OnlyAddiuRegisters]_vars

\* C17 witness: r_pass1 has paired a load or store with a GOT-local LW, the
\* resolved address lies in .text and is no key of functions
C17_Witness ==
    /\ pc \in AfterPass1
    /\ \E o \in TextIndices :
         /\ OrigIns(o).id \in LuiUserLoadStoreIds
         /\ rinsns[o].linked_insn \in TextIndices
         /\ rinsns[rinsns[o].linked_insn].instruction.id = "ori"
         /\ rinsns[o].patched /\ rinsns[o].patched_addr = 0
         /\ InText(elf, rinsns[o].linked_value)
         /\ rinsns[o].linked_value \notin DOMAIN functions

\* ------------------------------------------------------------------------
\* C18: the statement emitted for a GOT load rewritten to ORI
\* ------------------------------------------------------------------------
RECURSIVE BitOr(_, _)
BitOr(x, y) ==
    IF x = 0 THEN y
    ELSE IF y = 0 THEN x
    ELSE (IF x % 2 = 1 \/ y % 2 = 1 THEN 1 ELSE 0) + 2 * BitOr(x \div 2, y \div 2)

\* the token at n is the statement of a GOT load that r_pass1 rewrote to ORI
IsGotOriStatement(n) ==
    /\ out[n].k = "stmt" /\ out[n].i \in TextIndices
    /\ OrigIns(out[n].i).id = "lw" /\ RAB_INSTR_GET_rs(OrigIns(out[n].i)) = gp
    /\ rinsns[out[n].i].instruction.id = "ori" /\ rinsns[out[n].i].patched

\* the value gp is declared with in the function body that holds position n
GpOfBody(n) ==
    LET m == CHOOSE m \in BodyOf(n) : out[m].k = "gp_decl" IN out[m].a

\* `rt = rs | imm` with rs = gp: what the emitted statement assigns
GotOriAssigns(n) == BitOr(GpOfBody(n), out[n].a)

\* C18: the statement emitted for a GOT load rewritten to ORI assigns its
\* destination exactly patched_addr, whatever value the body declares for gp
C18_GotOriIsImmediate ==
    pc = "done" =>
        \A n \in 1..Len(out) :
            IsGotOriStatement(n) => GotOriAssigns(n) = rinsns[out[n].i].patched_addr

\* the same in the default mode only (gp declared as 0)
C18_GotOriIsImmediateByDefault ==
    (pc = "done" /\ ~elf.conservative) =>
        \A n \in 1..Len(out) :
            IsGotOriStatement(n) => GotOriAssigns(n) = rinsns[out[n].i].patched_addr

\* ------------------------------------------------------------------------
\* C19: floating point LI (LUI / MTC1)
\* ------------------------------------------------------------------------
\* the nearest instruction before the MTC1 at i that writes its $rt or is a
\* JR $ra (-1: none)
MtcProducer(i) ==
    NearestBefore(i, LAMBDA ins :
        \/ get_dest_reg(ins) = RAB_INSTR_GET_rt(OrigIns(i))
        \/ ins.id = "jr" /\ RAB_INSTR_GET_rs(ins) = ra)

FeedsMtc(s, i) == s = MtcProducer(i) /\ s # -1 /\ OrigIns(s).id = "lui"

IsFloatLi(rec, ins, i) ==
    /\ rec.patched /\ rec.instruction.id = "ori"
    /\ rec.patched_addr = Shl16(getProcessedImmediate(ins))
    /\ rec.linked_insn = i

MtcRewritesItsLui ==
    (At("pass1") /\ idx \in TextIndices /\ OrigIns(idx).id = "mtc1") =>
        \A s \in 0..(idx - 1) :
            IF FeedsMtc(s, idx) THEN IsFloatLi(rinsns'[s], OrigIns(s), idx)
            ELSE rinsns'[s] = rinsns[s]

\* C19: the r_pass1 step of MTC1 $rt rewrites the LUI $rt that is the nearest
\* writer of $rt before it (no JR $ra between) to a patched ORI with
\* patched_addr = imm << 16 linked to the MTC1, whatever LUIs of other
\* registers lie between, and rewrites nothing when another instruction
\* writes $rt in between
C19_MtcRewritesItsLui == [][MtcRewritesItsLui]_vars

MtcRewritesAdjacentLui ==
    (At("pass1") /\ idx \in TextIndices /\ OrigIns(idx).id = "mtc1") =>
        \A s \in 0..(idx - 1) :
            (FeedsMtc(s, idx) /\ \A k \in (s + 1)..(idx - 1) : OrigIns(k).id = "nop")
                => IsFloatLi(rinsns'[s], OrigIns(s), idx)

\* the same when only NOPs lie between the LUI $rt and the MTC1
C19_MtcRewritesAdjacentLui == [][MtcRewritesAdjacentLui]_vars

\* ------------------------------------------------------------------------
\* C20: the edges of a call in the control-flow graph
\* ------------------------------------------------------------------------
HasSuccessor(from, ed) ==
    \E k \in 1..Len(rinsns[from].successors) : rinsns[from].successors[k] = ed

\* a JAL that the loop of r_pass3 visits
IsVisitedJal(i) ==
    rinsns[i].instruction.id = "jal" /\ ~rinsns[i].no_following_successor

JalEdgesInternal(i, dest) ==
    /\ HasSuccessor(i + 1, Edge(addr_to_i(dest), TRUE, FALSE, FALSE, FALSE))
    /\ \A k \in 1..Len(functions[dest].returns) :
         HasSuccessor(addr_to_i(functions[dest].returns[k]),
                      Edge(i + 2, FALSE, TRUE, FALSE, FALSE))

JalEdgesExtern(i) ==
    rinsns[i + 1].successors = <<Edge(i + 2, FALSE, FALSE, TRUE, FALSE)>>

\* C20: after r_pass3, the delay slot of every visited JAL has a
\* function_entry edge to an internal target (above mcount_addr, in .text)
\* and each return of the target a function_exit edge to i + 2; for any
\* other target its only edge is i + 1 -> i + 2 tagged extern_function; the
\* delay slot is flagged no_following_successor and has no untagged edge to
\* i + 2
C20_CallEdges ==
    pc \in AfterPass3 =>
        \A i \in TextIndices :
            IsVisitedJal(i) =>
                /\ IF JalIsInternal(elf, JumpTarget(rinsns[i]))
                   THEN JalEdgesInternal(i, JumpTarget(rinsns[i]))
                   ELSE JalEdgesExtern(i)
                /\ rinsns[i + 1].no_following_successor
                /\ ~HasSuccessor(i + 1, Edge(i + 2, FALSE, FALSE, FALSE, FALSE))

\* C20 witness: r_pass3 is over and a visited JAL calls a function of the
\* program that has a return, with the entry and exit edges in place
C20_Witness ==
    /\ pc \in AfterPass3
    /\ \E i \in TextIndices :
         /\ IsVisitedJal(i) /\ JalIsInternal(elf, JumpTarget(rinsns[i]))
         /\ JumpTarget(rinsns[i]) \in DOMAIN functions
         /\ Len(functions[JumpTarget(rinsns[i])].returns) > 0
         /\ JalEdgesInternal(i, JumpTarget(rinsns[i]))
         /\ rinsns[i + 1].no_following_successor

\* a visited JAL to an extern with its single extern_function edge
C20_WitnessExtern ==
    /\ pc \in AfterPass3
    /\ \E i \in TextIndices :
         /\ IsVisitedJal(i) /\ ~JalIsInternal(elf, JumpTarget(rinsns[i]))
         /\ JalEdgesExtern(i)

\* ------------------------------------------------------------------------
\* C21: the O32 argument walk over arbitrary parameter strings
\* ------------------------------------------------------------------------
MaxParams == 3

ParamLetters == {"i", "u", "p", "t", "f", "d", "l", "j"}

\* parameter strings: a return type and one to MaxParams parameters
ParamStrings ==
    UNION { {<<"v">> \o s : s \in [1..n -> ParamLetters]} : n \in 1..MaxParams }

\* the walk of r_pass5 over one parameter string, a character per step:
\* elf holds the catalog entry, idx the position of p, q the walk state
ArgWalkInit ==
    /\ elf \in {ExternFn(s, 0) : s \in ParamStrings}
    /\ pc = "arg_walk"
    /\ idx = 2
    /\ q = [pos |-> 0, pos_float |-> 0, only_floats |-> TRUE, args |-> ReachBit]
    /\ rinsns = <<>>
    /\ functions = <<>>
    /\ label_addresses = {}
    /\ li_function_pointers = {}
    /\ data_function_pointers = <<>>
    /\ out = <<>>
    /\ exit_status = NotExited

\* one iteration of `for (p = params + 1; *p != '\0'; ++p)`
ArgWalkStep ==
    /\ pc = "arg_walk"
    /\ idx <= Len(elf.params)
    /\ q' = ArgStep(q, elf.params[idx])
    /\ idx' = idx + 1
    /\ UNCHANGED <<elf, pc, rinsns, functions, label_addresses, li_function_pointers,
                   data_function_pointers, out, exit_status>>

\* the end of the string: args |= r_map_reg(sp)
ArgWalkEnd ==
    /\ pc = "arg_walk"
    /\ ~(idx <= Len(elf.params))
    /\ q' = [q EXCEPT !.args = @ \cup r_map_reg(sp)]
    /\ pc' = "arg_done"
    /\ UNCHANGED <<elf, idx, rinsns, functions, label_addresses, li_function_pointers,
                   data_function_pointers, out, exit_status>>

ArgWalkNext == ArgWalkStep \/ ArgWalkEnd

ArgWalkSpec == ArgWalkInit /\ [][ArgWalkNext]_vars

IsWideParam(c) == c \in {"d", "l", "j"}

EvenPairs == {{}, RegsMask({a0, a1}), RegsMask({a2, a3})}

WideParamAligned ==
    (pc = "arg_walk" /\ idx <= Len(elf.params) /\ IsWideParam(elf.params[idx])) =>
        /\ q'.pos % 2 = 0
        /\ \E pair \in EvenPairs : q'.args = q.args \cup pair

\* C21: a step of the argument walk over d, l or j leaves pos even and marks
\* either nothing or one of the pairs ($a0,$a1), ($a2,$a3)
C21_WideParamAligned == [][WideParamAligned]_vars

\* ------------------------------------------------------------------------
\* C22: the forward pass across an extern_function edge
\* ------------------------------------------------------------------------
AfterPass4 == {"pass5_seed", "pass5", "pass6", "dump_preamble", "dump_functions", "done"}

\* $v0, $v1, $a0..$a3 and $t0..$t9
ClobberedByCall == RegsMask({v0, v1, a0, a1, a2, a3} \cup (8..15) \cup {24, 25})

\* return registers by the first character of a parameter string
ReturnRegsOf(params) ==
    IF params[1] \in {"i", "u", "p"} THEN RegsMask({v0})
    ELSE IF params[1] \in {"l", "j"} THEN RegsMask({v0, v1})
    ELSE {}

IsExternEdge(ed) == ed.extern_function /\ ~ed.function_entry /\ ~ed.function_exit

\* the mask that crosses the extern edge leaving the delay slot i
ExternEdgeMask(i, liveout) ==
    (liveout \ ClobberedByCall)
        \cup ReturnRegsOf(extern_functions[FindExtern(elf, JumpTarget(rinsns[i - 1]))].params)

ExternEdgeForward ==
    (At("pass4") /\ q # <<>> /\ exit_status' = NotExited) =>
        LET i == addr_to_i(q[Len(q)])
        IN rinsns'[i].f_liveout # rinsns[i].f_liveout =>
             \A k \in 1..Len(rinsns[i].successors) :
                 LET ed == rinsns[i].successors[k]
                 IN (IsExternEdge(ed) /\ ed.i \in DOMAIN rinsns) =>
                        rinsns'[ed.i].f_livein =
                            rinsns[ed.i].f_livein \cup ExternEdgeMask(i, rinsns'[i].f_liveout)

\* C22: a step of the forward pass that visits the source of an
\* extern_function edge merges into the target's f_livein the source's
\* f_liveout without $v0, $v1, $a0..$a3, $t0..$t9, plus the return registers
\* of the extern (i/u/p: $v0; l/j: $v0 and $v1; f/d/v: none)
C22_ExternEdgeForward == [][ExternEdgeForward]_vars

\* C22 witness: the forward pass is over and the instruction after a call of
\* memcpy has $v0 and no other caller-saved register in f_livein
C22_Witness ==
    /\ pc \in AfterPass4
    /\ \E c \in TextIndices :
         /\ rinsns[c].instruction.id = "jal"
         /\ FindExtern(elf, JumpTarget(rinsns[c])) = "memcpy"
         /\ \E k \in 1..Len(rinsns[c + 1].successors) :
              IsExternEdge(rinsns[c + 1].successors[k])
         /\ rinsns[c + 2].f_livein \cap ClobberedByCall = RegsMask({v0})

\* ------------------------------------------------------------------------
\* C23: r_pass3 and the order in which the indices are visited
\* ------------------------------------------------------------------------
\* the loop of r_pass3 run over the indices in the given order (wild writes
\* do not kill the run)
RECURSIVE P3Visit(_, _, _, _, _)
P3Visit(e, st, F, order, k) ==
    IF st.fail \/ k > Len(order) THEN st
    ELSE P3Visit(e, r_pass3_iter(e, st.r, F, order[k], FALSE), F, order, k + 1)

LastIndex == Len(elf.text)

Ascending == [k \in 1..(LastIndex + 1) |-> k - 1]
Descending == [k \in 1..(LastIndex + 1) |-> LastIndex + 1 - k]
\* ascending from s to the end, then ascending from 0 to s - 1
Rotated(s) == [k \in 1..(LastIndex + 1) |-> (s + k - 1) % (LastIndex + 1)]

VisitOrders == {Descending} \cup {Rotated(s) : s \in 0..LastIndex}

\* the graph as sets: edges leaving and entering each instruction, and flags
SeqRange(s) == {s[k] : k \in 1..Len(s)}

GraphOf(st) ==
    [i \in DOMAIN st.r |->
        [succ |-> SeqRange(st.r[i].successors), pred |-> SeqRange(st.r[i].predecessors),
         nfs |-> st.r[i].no_following_successor]]

GraphIn(order) == GraphOf(P3Visit(elf, P3Res(rinsns, FALSE), functions, order, 1))

\* the instruction at i flags its delay slot when r_pass3 visits it
FlagsDelaySlot(i) ==
    /\ ~rinsns[i].no_following_successor
    /\ rinsns[i].instruction.id \in LikelyBranchIds \cup {"b", "j", "jr", "jal", "jalr"}

PosIn(order, i) == CHOOSE k \in 1..Len(order) : order[k] = i

\* every instruction that flags its delay slot is visited before the slot
BranchBeforeSlot(order) ==
    \A i \in 0..(LastIndex - 1) :
        FlagsDelaySlot(i) => PosIn(order, i) < PosIn(order, i + 1)

AtPass3Start ==
    /\ At("pass3") /\ idx = 0
    /\ ~P3Visit(elf, P3Res(rinsns, FALSE), functions, Ascending, 1).fail

\* C23: r_pass3 builds the same successors, predecessors and flags in every
\* visiting order
C23_AnyOrderSameGraph ==
    AtPass3Start => \A order \in VisitOrders : GraphIn(order) = GraphIn(Ascending)

\* C23 as amended: r_pass3 builds the same graph in every order that visits
\* each instruction flagging its delay slot before that slot; other orders
\* (descending) are not covered
C23_SlotOrderSameGraph ==
    AtPass3Start =>
        \A order \in VisitOrders :
            BranchBeforeSlot(order) => GraphIn(order) = GraphIn(Ascending)

\* C23 witness: at the start of r_pass3 a rotated order keeps every branch
\* before its delay slot, and the descending order builds another graph
C23_Witness ==
    /\ AtPass3Start
    /\ \E s \in 1..LastIndex : BranchBeforeSlot(Rotated(s))
    /\ \E i \in 0..(LastIndex - 1) : FlagsDelaySlot(i)
    /\ GraphIn(Descending) # GraphIn(Ascending)

\* ------------------------------------------------------------------------
\* C24: function pointers materialized by GOT-global loads
\* ------------------------------------------------------------------------
AfterPass2Returns == AfterPass1 \ {"pass2_returns"}

\* GOT-global load at i, rewritten to ORI and still tagged, resolved in .text
IsGotFunctionPointer(i) ==
    /\ rinsns[i].is_global_got_memop
    /\ rinsns[i].patched /\ rinsns[i].instruction.id = "ori"
    /\ InText(elf, rinsns[i].patched_addr)

\* C24: after the first loop of r_pass2, li_function_pointers holds exactly
\* the resolved .text addresses of the GOT-global loads still tagged
\* is_global_got_memop, and their functions are marked
\* referenced_by_function_pointer
C24_GotPointersRecorded ==
    pc \in AfterPass2Returns =>
        /\ \A i \in TextIndices :
             IsGotFunctionPointer(i) =>
                 /\ rinsns[i].patched_addr \in li_function_pointers
                 /\ rinsns[i].patched_addr \in DOMAIN functions
                 /\ functions[rinsns[i].patched_addr].referenced_by_function_pointer
        /\ li_function_pointers =
               {rinsns[i].patched_addr : i \in {j \in TextIndices : IsGotFunctionPointer(j)}}

\* ------------------------------------------------------------------------
\* C25: the callee of an extern_function edge in both liveness passes
\* ------------------------------------------------------------------------
\* the delay slot of the JAL at c has an extern_function edge to c + 2
HasExternEdge(c) ==
    /\ c + 2 \in DOMAIN rinsns
    /\ \E k \in 1..Len(rinsns[c + 1].successors) :
         /\ IsExternEdge(rinsns[c + 1].successors[k])
         /\ rinsns[c + 1].successors[k].i = c + 2

\* C25: for every extern_function edge (delay slot of the JAL at c -> c + 2),
\* the address that r_pass4 looks up and the address that r_pass5 looks up are
\* both the target of the JAL at c (patched_addr when patched, its index field
\* otherwise), whatever the instruction at c + 2 is
C25_SameCallee ==
    pc \in AfterPass3 =>
        \A c \in TextIndices :
            HasExternEdge(c) =>
                /\ FwdExternAddress(rinsns, c + 1) = JumpTarget(rinsns[c])
                /\ BwdExternAddress(rinsns, c + 2) = JumpTarget(rinsns[c])

\* ------------------------------------------------------------------------
\* C26: the liveness masks and the order in which the worklist is popped
\* ------------------------------------------------------------------------
\* the worklist with its k-th element moved to the back, where the loops pop
PopAt(w, k) == SubSeq(w, 1, k - 1) \o SubSeq(w, k + 1, Len(w)) \o <<w[k]>>

\* the positions a worklist may be popped at: the front (FIFO), the back
\* (LIFO, as coded) and the middle, chosen anew at every iteration
PopChoices(w) == IF w = <<>> THEN {1} ELSE {1, (Len(w) + 1) \div 2, Len(w)}

\* one iteration of the loop of r_pass4 that pops any element of the worklist
Pass4PopAny ==
    /\ At("pass4")
    /\ \E crash \in BOOLEAN, k \in PopChoices(q) :
         Pop(r_pass4_pop(elf, rinsns, IF q = <<>> THEN q ELSE PopAt(q, k), crash), "pass5_seed")

\* one iteration of the loop of r_pass5 that pops any element of the worklist
Pass5PopAny ==
    /\ At("pass5")
    /\ \E crash \in BOOLEAN, k \in PopChoices(q) :
         Pop(r_pass5_pop(elf, rinsns, IF q = <<>> THEN q ELSE PopAt(q, k), crash), "pass6")

OrderNext ==
    \/ InspectRodata
    \/ InspectData
    \/ Pass1Step
    \/ Pass2Returns
    \/ Pass2Func
    \/ Pass3Step
    \/ Pass4Seed
    \/ Pass4PopAny
    \/ Pass5Seed
    \/ Pass5PopAny
    \/ Pass6Step
    \/ DumpPreamble
    \/ DumpFunction
    \/ Finish

\* programs with a loop, two returns, an internal call and an extern call
OrderInputs ==
    {ProgLoop(0), ProgTwoReturns(0, "first"), ProgCall(0, "intern"), ProgCall(0, "extern"),
     ProgCall(0, "data")}

\* the program with worklists popped in any order (LIFO and FIFO included)
OrderSpec == InitFrom(OrderInputs) /\ [][OrderNext]_vars

\* the loops of r_pass4 and r_pass5 as coded (LIFO), run to the end
RECURSIVE RunPass4(_), RunPass5(_)
RunPass4(st) ==
    IF st.fail \/ st.q = <<>> THEN st ELSE RunPass4(r_pass4_pop(elf, st.r, st.q, FALSE))
RunPass5(st) ==
    IF st.fail \/ st.q = <<>> THEN st ELSE RunPass5(r_pass5_pop(elf, st.r, st.q, FALSE))

ClearForward(R) == [i \in DOMAIN R |-> [R[i] EXCEPT !.f_livein = {}, !.f_liveout = {}]]
ClearBackward(R) == [i \in DOMAIN R |-> [R[i] EXCEPT !.b_livein = {}, !.b_liveout = {}]]

\* r_pass4 and r_pass5 as coded, from the masks they start with
LifoPass4 ==
    RunPass4(r_pass4_seed(elf, ClearForward(rinsns), data_function_pointers,
                          li_function_pointers))
LifoPass5 ==
    RunPass5(r_pass5_seed(elf, ClearBackward(rinsns), functions, data_function_pointers,
                          li_function_pointers))

SameForward(st) ==
    /\ ~st.fail
    /\ \A i \in DOMAIN rinsns :
         /\ rinsns[i].f_livein = st.r[i].f_livein
         /\ rinsns[i].f_liveout = st.r[i].f_liveout

SameBackward(st) ==
    /\ ~st.fail
    /\ \A i \in DOMAIN rinsns :
         /\ rinsns[i].b_livein = st.r[i].b_livein
         /\ rinsns[i].b_liveout = st.r[i].b_liveout

\* C26: whatever order the worklists were popped in, the masks f_livein and
\* f_liveout at the end of r_pass4 and the masks b_livein and b_liveout at the
\* end of r_pass5 are those that the loops as coded (LIFO) compute
C26_OrderIndependent ==
    /\ (pc = "pass5_seed" /\ exit_status = NotExited) => SameForward(LifoPass4)
    /\ (pc = "pass6" /\ exit_status = NotExited) => SameBackward(LifoPass5)

\* both passes ended after a run that popped a worklist of two or more
\* entries, and some instruction has live registers in both directions
C26_Witness ==
    /\ pc = "pass6" /\ exit_status = NotExited
    /\ \E i \in TextIndices :
         rinsns[i].f_liveout \ ReachBit # {} /\ rinsns[i].b_livein \ ReachBit # {}
    /\ Cardinality({i \in TextIndices : rinsns[i].b_livein # {}}) >= 4

\* ------------------------------------------------------------------------
\* C27: the address computed by the users of a GOT-local base
\* ------------------------------------------------------------------------
\* the instruction that the ELF has at index i
TextAt(i) == elf.text[i + 1]

GotEntryOf(ins) == UDiv4(getProcessedImmediate(ins) + elf.gp_value_adj)

\* the ELF has at s a LW from a GOT-local slot
IsGotLocalLw(s) ==
    /\ TextAt(s).id = "lw" /\ RAB_INSTR_GET_rs(TextAt(s)) = gp
    /\ GotEntryOf(TextAt(s)) < Len(elf.got_locals)

\* the ELF has at u an ADDIU or a load/store whose base was last written by
\* the instruction at s, with no jump in between
UsesBaseOf(u, s) ==
    /\ s < u
    /\ TextAt(u).id \in {"addiu"} \cup LuiUserLoadStoreIds
    /\ get_dest_reg(TextAt(s)) = RAB_INSTR_GET_rs(TextAt(u))
    /\ \A k \in (s + 1)..(u - 1) :
         /\ get_dest_reg(TextAt(k)) # RAB_INSTR_GET_rs(TextAt(u))
         /\ ~isJump(TextAt(k).desc)

\* the base that the instruction at s leaves in its register after r_pass1
MaterializedBase(s) ==
    IF rinsns[s].patched /\ rinsns[s].instruction.id = "ori"
    THEN rinsns[s].patched_addr
    ELSE elf.got_locals[GotEntryOf(TextAt(s)) + 1]

\* the immediate that the user at u adds to its base after r_pass1
EffectiveImmediate(u) ==
    IF rinsns[u].instruction.id = "move" THEN 0 ELSE DumpImm(rinsns[u])

\* C27: after r_pass1 every ADDIU or load/store whose base was last written
\* by a GOT-local LW computes got_locals[entry] plus its own original
\* immediate, also when several instructions use the same base
C27_GotLocalAddressKept ==
    (pc \in AfterPass1 /\ exit_status = NotExited) =>
        \A s \in TextIndices, u \in TextIndices :
            (IsGotLocalLw(s) /\ UsesBaseOf(u, s)) =>
                MaterializedBase(s) + EffectiveImmediate(u)
                    = elf.got_locals[GotEntryOf(TextAt(s)) + 1]
                      + getProcessedImmediate(TextAt(u))

\* ------------------------------------------------------------------------
\* C28: HI/LO between MULT/DIV and MFHI/MFLO
\* ------------------------------------------------------------------------
\* the register that MFHI or MFLO reads
HiLoSource(ins) == IF ins.id = "mfhi" THEN r_map_reg(hi) ELSE r_map_reg(lo)

\* a reachable MFHI or MFLO
IsMoveFromHiLo(i) ==
    rinsns[i].instruction.id \in {"mfhi", "mflo"} /\ rinsns[i].f_livein # {}

\* the function at fa is `MULT/MULTU/DIV/DIVU $a0, $a1; MFHI/MFLO $v0; JR $ra`
IsHiLoFunction(fa) ==
    LET i == addr_to_i(fa)
    IN /\ i + 2 \in TextIndices
       /\ TextAt(i).id \in TYPE_D_LO_HI_2S_Ids
       /\ RAB_INSTR_GET_rs(TextAt(i)) = a0 /\ RAB_INSTR_GET_rt(TextAt(i)) = a1
       /\ TextAt(i + 1).id \in {"mfhi", "mflo"} /\ RAB_INSTR_GET_rd(TextAt(i + 1)) = v0
       /\ IsJrRa(TextAt(i + 2))

\* C28: after the passes, a reachable MFHI/MFLO has its destination
\* forward-live when HI/LO is forward-live before it and has HI/LO
\* backward-live before it when its destination is backward-live after it;
\* a function `MULT $a0, $a1; MFLO $v0; JR $ra` called with $a0, $a1 live and
\* $v0 used by the caller gets nargs = 2 and nret = 1
C28_HiLoConnected ==
    (pc \in AfterPass6 /\ exit_status = NotExited) =>
        /\ \A i \in TextIndices :
             IsMoveFromHiLo(i) =>
                 /\ HiLoSource(rinsns[i].instruction) \subseteq rinsns[i].f_livein
                      => get_dest_reg_mask(rinsns[i].instruction) \subseteq rinsns[i].f_liveout
                 /\ get_dest_reg_mask(rinsns[i].instruction) \subseteq rinsns[i].b_liveout
                      => HiLoSource(rinsns[i].instruction) \subseteq rinsns[i].b_livein
        /\ \A fa \in DOMAIN functions :
             IsHiLoFunction(fa) => functions[fa].nargs = 2 /\ functions[fa].nret = 1

\* ------------------------------------------------------------------------
\* C29: calls to internal functions against the emitted signatures
\* ------------------------------------------------------------------------
Emitted(kind) == \E k \in DOMAIN out : out[k].k = kind

\* r_dump_c prints a signature for the function keyed fa
HasSignature(fa) == fa \in DOMAIN functions /\ IsUsedFunction(rinsns, fa)

\* a call that r_dump_jal prints for the callee address a takes its name,
\* v0_in, nargs and nret from functions.find(a), as the signature of a does
DirectCallsMatch ==
    \A k \in DOMAIN out : out[k].k = "call_intern" => HasSignature(out[k].a)

\* a trampoline case passes mem, sp and nargs argument registers, never $v0
TrampolineCallsMatch ==
    (Emitted("header") /\ (data_function_pointers # <<>> \/ li_function_pointers # {})) =>
        \A fa \in DOMAIN functions :
            (functions[fa].referenced_by_function_pointer /\ HasSignature(fa)) =>
                ~functions[fa].v0_in

\* `int ret = f_main(mem, stack_bottom[, argc[, arg_addr]])`
HarnessCallMatches ==
    Emitted("run") =>
        /\ HasSignature(elf.main_addr)
        /\ functions[elf.main_addr].nret > 0
        /\ functions[elf.main_addr].nargs <= 2
        /\ ~functions[elf.main_addr].v0_in

\* C29: every call to an internal function in the emitted program (direct
\* JAL call, trampoline case, the harness call of f_main) names a function
\* whose signature is emitted and passes and uses what that signature declares
C29_CallsMatchSignature ==
    DirectCallsMatch /\ TrampolineCallsMatch /\ HarnessCallMatches

\* ------------------------------------------------------------------------
\* C30: the class of a JAL target in r_pass3 and in r_dump_jal
\* ------------------------------------------------------------------------
\* r_pass3 gave the delay slot of the JAL at i a function_entry edge
HasCallEdge(i) == HasEntryEdge(rinsns[i + 1].successors)

\* the token at k of the output is the call printed for a JAL that r_pass3
\* visited
IsDumpedCall(k) ==
    /\ out[k].k \in {"call_intern", "call_extern"}
    /\ out[k].i + 2 \in DOMAIN rinsns
    /\ IsVisitedJal(out[k].i)

\* C30: a JAL gets function_entry/function_exit edges in r_pass3 exactly when
\* r_dump_jal prints a call of an internal f_/func_ function for it, and an
\* extern_function edge exactly when r_dump_jal prints a wrapper call
C30_SameClass ==
    \A k \in DOMAIN out :
        IsDumpedCall(k) =>
            /\ out[k].k = "call_intern" <=> HasCallEdge(out[k].i)
            /\ out[k].k = "call_extern" <=> HasExternEdge(out[k].i)

\* C30 for the JALs rewritten from JALR only (r_dump_jal gets patched_addr)
C30_SameClassPatched ==
    \A k \in DOMAIN out :
        (IsDumpedCall(k) /\ rinsns[out[k].i].patched) =>
            /\ out[k].k = "call_intern" <=> HasCallEdge(out[k].i)
            /\ out[k].k = "call_extern" <=> HasExternEdge(out[k].i)

====
